---- MODULE Spec2Model ----
(***************************************************************************)
(* A model of tauri-plugin-tracing: the JavaScript call-stack parser, the  *)
(* log command, the level/target filter, the ANSI stripper and its locked  *)
(* writer, the retention sweep of the file sink, the assembly of the sinks *)
(* in the plugin's setup hook, the layer that forwards events to the       *)
(* frontend, the Builder's methods and the timers of the time commands.    *)
(*                                                                         *)
(* Text is modelled as a sequence of tokens.  A token is a run of bytes    *)
(* that the code only ever treats as a whole ("localhost:", "/", "\n") or  *)
(* one half of a marker the code searches for ("node_" + "modules"), so    *)
(* that substring search, split and join on token sequences behave as the  *)
(* byte-level operations of the source do on the corresponding strings.    *)
(***************************************************************************)
EXTENDS Integers, Sequences, FiniteSets, TLC

VARIABLES
    call_stack,   \* callstack: the raw stack text handed to the command (Option)
    ret,          \* callstack: the last projection called and what it returned
    invoked,      \* commands: the arguments of the last log command
    event,        \* commands: the last event emitted by the log command
    buf,          \* strip_ansi: the buffer handed to strip_ansi_and_write
    sink,         \* strip_ansi: the bytes the wrapped writer has received
    written,      \* strip_ansi: the io::Result<usize> of the call
    log_level,    \* Builder.log_level
    filter,       \* Builder.filter (Targets: directives, most specific first)
    custom_filter, \* Builder.custom_filter (Option<FilterFn>)
    subscriber,   \* the process-wide default subscriber (Option)
    delivery,     \* the last event dispatched and whether the sinks received it
    dir,          \* the names of the entries of the log directory
    file_prefix,  \* FileTargetConfig.file_name
    rotation_strategy, \* Builder.rotation_strategy
    sweep,        \* the Result of cleanup_old_logs, what it listed and what it could not remove
    targets,      \* Builder.targets (Vec<Target>)
    rotation,     \* Builder.rotation
    max_file_size, \* Builder.max_file_size (Option<MaxFileSize>)
    use_colors,   \* Builder.use_colors
    set_default_subscriber, \* Builder.set_default_subscriber
    pc,           \* setup hook: the step it has reached
    file_config,  \* acquire_logger: the resolved file target (Option<FileTargetConfig>)
    layers,       \* acquire_logger: the optional layers created so far
    guard,        \* the WorkerGuard of the non-blocking file writer and where it lives
    global_default, \* tracing's process-wide default: who holds the slot
    managed,      \* whether the application's managed state holds a LogGuard
    setup_result, \* what the setup hook returned (Option)
    sweeps,       \* how many times acquire_logger has called cleanup_old_logs
    mutex,        \* StripAnsiWriter.inner: the Mutex (holder and poison flag)
    writer,       \* per thread: where it is between make_writer and the guard's drop
    unwritten,    \* per thread: the stripped bytes write_all still has to hand over
    inner,        \* StripAnsiWriter.inner: what the wrapped writer received, byte by byte
    performed,    \* the writes in the order Write::write was called
    recorded,     \* layer: the event handed to WebviewLayer::on_event (Option)
    emitted,      \* layer: the payloads emitted to the frontend, in order
    builder_calls, \* the Builder methods called so far, in order
    timings,      \* timing: the TimingMap, key to the timer started under it
    timings_lock, \* timing: the tokio Mutex around the map (the call that holds it)
    timer_calls,  \* commands: the time / time_end commands issued, in order
    reports       \* timing: the events time_end has emitted, in order

stackVars == <<call_stack, ret, invoked, event>>

stripVars == <<buf, sink, written>>

filterVars == <<log_level, filter, custom_filter, subscriber, delivery>>

sweepVars == <<dir, file_prefix, rotation_strategy, sweep>>

configVars == <<targets, rotation, max_file_size, use_colors, set_default_subscriber>>

setupVars == <<pc, file_config, layers, guard, global_default, managed, setup_result, sweeps>>

writerVars == <<mutex, writer, unwritten, inner, performed>>

webviewVars == <<recorded, emitted>>

builderVars == <<builder_calls>>

timerVars == <<timings, timings_lock, timer_calls, reports>>

vars == <<call_stack, ret, invoked, event, buf, sink, written,
          log_level, filter, custom_filter, subscriber, delivery,
          dir, file_prefix, rotation_strategy, sweep,
          targets, rotation, max_file_size, use_colors, set_default_subscriber,
          pc, file_config, layers, guard, global_default, managed, setup_result, sweeps,
          mutex, writer, unwritten, inner, performed, recorded, emitted,
          builder_calls, timings, timings_lock, timer_calls, reports>>

(***************************************************************************)
(* Bounds                                                                  *)
(***************************************************************************)
MaxStackLen == 4

MaxLogStackLen == 3

MaxBufLen == 5

MaxKeep == 3

MaxBuilderCalls == 3

MaxTimerCalls == 3

(***************************************************************************)
(* Generic text helpers (std::str / Vec operations used by the source)     *)
(***************************************************************************)
\* Option<T>: None is the empty sequence, Some(x) is <<x>>.
None == <<>>

Some(x) == <<x>>

\* All texts of at most n tokens over the alphabet.
TextsUpTo(alphabet, n) == UNION {[1..k -> alphabet] : k \in 0..n}

\* s[from..] with a 0-based offset, as a Rust slice.
SliceFrom(s, from) == SubSeq(s, from + 1, Len(s))

\* pat occurs in s at the 0-based offset i.
MatchesAt(s, pat, i) ==
    /\ i + Len(pat) <= Len(s)
    /\ \A k \in 1..Len(pat) : s[i + k] = pat[k]

\* str::find: the 0-based offset of the first occurrence of pat, -1 for None.
Find(s, pat) ==
    LET hits == {i \in 0..Len(s) : MatchesAt(s, pat, i)}
    IN  IF hits = {} THEN -1 ELSE CHOOSE i \in hits : \A j \in hits : i <= j

\* str::contains
Contains(s, pat) == Find(s, pat) # -1

\* str::split(sep) collected: never empty, "" splits to [""].
RECURSIVE Split(_, _)
Split(s, sep) ==
    LET i == Find(s, sep)
    IN  IF i = -1
        THEN <<s>>
        ELSE <<SubSeq(s, 1, i)>> \o Split(SliceFrom(s, i + Len(sep)), sep)

\* [String]::join(sep)
RECURSIVE Join(_, _)
Join(parts, sep) ==
    IF parts = <<>> THEN <<>>
    ELSE IF Len(parts) = 1 THEN parts[1]
    ELSE parts[1] \o sep \o Join(Tail(parts), sep)

\* Iterator::last
Last(parts) == IF parts = <<>> THEN None ELSE Some(parts[Len(parts)])

(***************************************************************************)
(* callstack.rs                                                            *)
(***************************************************************************)
\* The tokens a raw stack text is made of.
StackAlphabet ==
    {"node_", "modules", "forEach@", "[native code]", "localhost:", "/", "#", "\n", "a"}

NEWLINE == <<"\n">>

HASH == <<"#">>

SLASH == <<"/">>

UNKNOWN == <<"unknown">>

\* A filter list that lost its vendored-dependency marker.
FILTERED_LINES_NativeOnly == {<<"forEach@", "[native code]">>}

FILTERED_LINES == {<<"node_", "modules">>, <<"forEach@", "[native code]">>}

\* A parser that falls back to the single-line sentinel for an absent text.
CallStackFrom_Unknown(value) ==
    Split(IF value = None THEN UNKNOWN ELSE value[1], NEWLINE)

\* impl From<Option<&str>> for CallStack: the lines of value.unwrap_or("").
CallStackFrom(value) ==
    Split(IF value = None THEN <<>> ELSE value[1], NEWLINE)

\* A strip that cuts through "localhost:" only and leaves the port and slash.
strip_localhost_KeepPort(line) ==
    LET start == Find(line, <<"localhost:">>)
        slash_pos == IF start = -1 THEN -1 ELSE Find(SliceFrom(line, start), SLASH)
    IN  IF start # -1 /\ slash_pos # -1
        THEN SliceFrom(line, start + 1)
        ELSE line

\* CallStackLine::strip_localhost
strip_localhost(line) ==
    LET start == Find(line, <<"localhost:">>)
        slash_pos == IF start = -1 THEN -1 ELSE Find(SliceFrom(line, start), SLASH)
    IN  IF start # -1 /\ slash_pos # -1
        THEN SliceFrom(line, start + slash_pos + 1)
        ELSE line

\* fmap_location: None for a filtered line, else the line without its localhost prefix.
fmap_location(line) ==
    IF \E filtered \in FILTERED_LINES : Contains(line, filtered)
    THEN None
    ELSE Some(strip_localhost(line))

\* Iterator::filter_map(fmap_location) collected
RECURSIVE FilterMapLocation(_)
FilterMapLocation(lines) ==
    IF lines = <<>> THEN <<>>
    ELSE fmap_location(lines[1]) \o FilterMapLocation(Tail(lines))

\* CallStack::location
location(stack) == Join(FilterMapLocation(stack), HASH)

\* CallStack::path
path(stack) ==
    LET last == Last(Split(location(stack), HASH))
    IN  IF last = None THEN UNKNOWN ELSE last[1]

\* CallStack::file_name
file_name(stack) ==
    LET last == Last(Split(location(stack), SLASH))
    IN  IF last = None THEN UNKNOWN ELSE last[1]

(***************************************************************************)
(* layer.rs / commands.rs: the log command                                 *)
(***************************************************************************)
LogLevel == {"Trace", "Debug", "Info", "Warn", "Error"}

\* The message parts a frontend call may carry.
LogMessages == {<<<<"m">>>>, <<<<"m">>, <<"n">>>>}

\* impl Display for LogMessage
DisplayMessage(message) == Join(message, <<", ">>)

\* #[repr(u16)] with Serialize_repr / Deserialize_repr: Trace = 1 and each
\* later variant one more.
LogLevelRepr(level) ==
    CASE level = "Trace" -> 1
      [] level = "Debug" -> 2
      [] level = "Info" -> 3
      [] level = "Warn" -> 4
      [] level = "Error" -> 5

\* #[default] Info
LogLevelDefault == "Info"

\* impl From<LogLevel> for tracing::Level, as used by emit_event!
LevelFromLogLevel(level) ==
    CASE level = "Trace" -> "TRACE"
      [] level = "Debug" -> "DEBUG"
      [] level = "Info" -> "INFO"
      [] level = "Warn" -> "WARN"
      [] level = "Error" -> "ERROR"

\* A mapping that gives Debug the full location.
LogLocation_DebugFull(level, stack) ==
    CASE level = "Trace" -> location(stack)
      [] level = "Debug" -> location(stack)
      [] level = "Info" -> file_name(stack)
      [] level = "Warn" -> path(stack)
      [] level = "Error" -> location(stack)

\* The `let loc = match level` of the log command.
LogLocation(level, stack) ==
    CASE level = "Trace" -> location(stack)
      [] level = "Debug" -> path(stack)
      [] level = "Info" -> file_name(stack)
      [] level = "Warn" -> path(stack)
      [] level = "Error" -> location(stack)

NoReturn == [op |-> "none", val |-> <<>>]

NoInvocation == [called |-> FALSE, level |-> "Info", message |-> <<>>]

NoEvent == [emitted |-> FALSE, target |-> <<>>, level |-> "INFO", message |-> <<>>, loc |-> <<>>]

(***************************************************************************)
(* lib.rs: Builder level/target filter and the installed subscriber        *)
(***************************************************************************)
\* tracing::Level, and LevelFilter with OFF below every level.
Levels == {"ERROR", "WARN", "INFO", "DEBUG", "TRACE"}

LevelFilters == {"OFF"} \cup Levels

\* The order of Level / LevelFilter: OFF < ERROR < WARN < INFO < DEBUG < TRACE.
Verbosity(l) ==
    CASE l = "OFF" -> 0
      [] l = "ERROR" -> 1
      [] l = "WARN" -> 2
      [] l = "INFO" -> 3
      [] l = "DEBUG" -> 4
      [] l = "TRACE" -> 5

\* The byte value of the first byte of a token, for Ord on strings; no token
\* is a prefix of another, so comparing first bytes compares the strings.
ByteOf(c) ==
    CASE c = "." -> 46
      [] c = "1" -> 49
      [] c = "2" -> 50
      [] c = "3" -> 51
      [] c = "a" -> 97
      [] c = "app" -> 97
      [] c = "b" -> 98
      [] c = "log" -> 108
      [] c = "txt" -> 116
      [] c = "web" -> 119

\* impl Ord for str: s < t, byte-wise lexicographic.
RECURSIVE StrLess(_, _)
StrLess(s, t) ==
    IF t = <<>> THEN FALSE
    ELSE IF s = <<>> THEN TRUE
    ELSE IF ByteOf(s[1]) # ByteOf(t[1]) THEN ByteOf(s[1]) < ByteOf(t[1])
    ELSE StrLess(Tail(s), Tail(t))

\* str::starts_with
StartsWith(s, prefix) == MatchesAt(s, prefix, 0)

\* str::ends_with
EndsWith(s, suffix) ==
    /\ Len(suffix) <= Len(s)
    /\ MatchesAt(s, suffix, Len(s) - Len(suffix))

\* The target prefixes given to with_target and the targets of emitted events.
RulePrefixes == {<<>>, <<"a">>, <<"a", "b">>}

EventTargets == {<<>>, <<"a">>, <<"a", "b", "b">>, <<"b">>}

\* The predicates given to with_filter, each as the levels it lets through.
FilterFns == {{"ERROR"}}

\* Option<usize>::cmp of the target lengths: None < Some(0) < Some(1) ...
TargetLen(d) == IF d.target = None THEN -1 ELSE Len(d.target[1])

\* Option<String>::cmp of the targets.
TargetLess(a, b) ==
    IF a.target = None THEN b.target # None
    ELSE IF b.target = None THEN FALSE
    ELSE StrLess(a.target[1], b.target[1])

\* impl Ord for StaticDirective (no field names), reversed: a sorts before b
\* when a is the more specific one.
DirectiveBefore(a, b) ==
    IF TargetLen(a) # TargetLen(b) THEN TargetLen(a) > TargetLen(b)
    ELSE TargetLess(b, a)

\* DirectiveSet::add: binary search in the sorted vector, replacing the directive
\* that compares equal (same target), inserting in order otherwise.
DirectiveSet_add(set, d) ==
    IF \E i \in 1..Len(set) : set[i].target = d.target
    THEN [i \in 1..Len(set) |-> IF set[i].target = d.target THEN d ELSE set[i]]
    ELSE LET n == Cardinality({i \in 1..Len(set) : DirectiveBefore(set[i], d)})
         IN  SubSeq(set, 1, n) \o <<d>> \o SubSeq(set, n + 1, Len(set))

\* Targets::with_target
Targets_with_target(set, target, level) ==
    DirectiveSet_add(set, [target |-> Some(target), level |-> level])

\* Targets::with_default
Targets_with_default(set, level) ==
    DirectiveSet_add(set, [target |-> None, level |-> level])

\* A match that also takes a rule whose prefix merely extends the target.
cares_about_Either(d, target) ==
    \/ d.target = None
    \/ StartsWith(target, d.target[1])
    \/ StartsWith(d.target[1], target)

\* StaticDirective::cares_about, for a directive without field names.
cares_about(d, target) ==
    d.target = None \/ StartsWith(target, d.target[1])

\* A lookup that lets the least specific matching directive decide.
Targets_enabled_LeastSpecific(set, target, level) ==
    LET matching == {i \in 1..Len(set) : cares_about(set[i], target)}
    IN  IF matching = {} THEN FALSE
        ELSE LET first == CHOOSE i \in matching : \A j \in matching : i >= j
             IN  Verbosity(set[first].level) >= Verbosity(level)

\* DirectiveSet::enabled: the first directive that cares about the target
\* decides; no directive, not enabled.
Targets_enabled(set, target, level) ==
    LET matching == {i \in 1..Len(set) : cares_about(set[i], target)}
    IN  IF matching = {} THEN FALSE
        ELSE LET first == CHOOSE i \in matching : \A j \in matching : i <= j
             IN  Verbosity(set[first].level) >= Verbosity(level)

\* acquire_logger: let filter_with_default = filter.with_default(log_level)
filter_with_default == Targets_with_default(filter, log_level)

\* A build_filter that hands out the per-target rules without the default.
build_filter_NoDefault == filter

\* Builder::build_filter: self.filter.clone().with_default(self.log_level)
build_filter == Targets_with_default(filter, log_level)

NoDelivery == [dispatched |-> FALSE, target |-> <<>>, level |-> "INFO", delivered |-> FALSE]

\* The filter state while the other components run.
FilterIdle ==
    /\ log_level = "WARN"
    /\ filter = <<>>
    /\ custom_filter = None
    /\ subscriber = None
    /\ delivery = NoDelivery

(***************************************************************************)
(* lib.rs / types.rs: the retention sweep                                  *)
(***************************************************************************)
\* RotationStrategy
KeepAll == [kind |-> "KeepAll", n |-> 0]

KeepOne == [kind |-> "KeepOne", n |-> 0]

KeepSome(n) == [kind |-> "KeepSome", n |-> n]

RotationStrategies == {KeepAll, KeepOne} \cup {KeepSome(n) : n \in 0..MaxKeep}

\* The file-name prefixes a file target may be configured with.
FilePrefixes == {<<"app">>, <<"web">>}

\* The entries a log directory may hold: rotated files of two prefixes, the
\* unrotated app.log, and a file that is no log.
DirEntries ==
    {<<"app", ".", "1", ".", "log">>, <<"app", ".", "2", ".", "log">>,
     <<"app", ".", "3", ".", "log">>, <<"app", ".", "log">>,
     <<"web", ".", "1", ".", "log">>, <<"web", ".", "2", ".", "log">>,
     <<"app", ".", "1", ".", "txt">>}

\* The filter closure of cleanup_logs_keeping.
IsLogFileOf(name, prefix) ==
    /\ StartsWith(name, prefix \o <<".">>)
    /\ EndsWith(name, <<".", "log">>)

\* A sort by file name, oldest first.
RECURSIVE SortedNewestFirst_Ascending(_)
SortedNewestFirst_Ascending(names) ==
    IF names = {} THEN <<>>
    ELSE LET least == CHOOSE x \in names : \A y \in names : ~StrLess(y, x)
         IN  <<least>> \o SortedNewestFirst_Ascending(names \ {least})

\* sort_by_key(Reverse(file_name)): the names in descending order.
RECURSIVE SortedNewestFirst(_)
SortedNewestFirst(names) ==
    IF names = {} THEN <<>>
    ELSE LET greatest == CHOOSE x \in names : \A y \in names : ~StrLess(x, y)
         IN  <<greatest>> \o SortedNewestFirst(names \ {greatest})

\* into_iter().skip(keep): the files cleanup_logs_keeping tries to remove.
FilesBeyond(entries, prefix, keep) ==
    LET log_files == SortedNewestFirst({name \in entries : IsLogFileOf(name, prefix)})
    IN  {log_files[i] : i \in {k \in 1..Len(log_files) : k > keep}}

\* cleanup_old_logs: the files the sweep tries to remove under a strategy.
FilesToRemove(entries, prefix, strategy) ==
    CASE strategy.kind = "KeepAll" -> {}
      [] strategy.kind = "KeepOne" -> FilesBeyond(entries, prefix, 1)
      [] strategy.kind = "KeepSome" -> FilesBeyond(entries, prefix, strategy.n)

NoSweep == [state |-> "none", listed |-> {}, failed |-> {}]

\* The log directory's state while the other components run.
SweepIdle ==
    /\ dir = {}
    /\ file_prefix = <<"app">>
    /\ rotation_strategy = KeepAll
    /\ sweep = NoSweep

(***************************************************************************)
(* lib.rs: the Builder's sink configuration and the setup hook's state     *)
(***************************************************************************)
\* Target: the variants, with the file_name of the two file targets.
Stdout == [kind |-> "Stdout", file_name |-> None]

Stderr == [kind |-> "Stderr", file_name |-> None]

Webview == [kind |-> "Webview", file_name |-> None]

LogDir(name) == [kind |-> "LogDir", file_name |-> name]

Folder(name) == [kind |-> "Folder", file_name |-> name]

\* The targets a configuration is made of.
Target == {Stdout, Stderr, Webview, LogDir(None), Folder(Some(<<"web">>))}

\* Rotation
Rotation == {"Daily", "Hourly", "Minutely", "Never"}

\* Option<MaxFileSize>, the size in bytes.
MaxFileSizes == {None, Some(1)}

\* The retention strategies the sinks are assembled with.
AssemblyStrategies == {KeepAll, KeepOne, KeepSome(0)}

\* What the log directory holds when the application starts.
StartupDir ==
    {<<"app", ".", "1", ".", "log">>, <<"app", ".", "2", ".", "log">>,
     <<"web", ".", "1", ".", "log">>, <<"app", ".", "1", ".", "txt">>}

\* The optional layers of acquire_logger before any is created.
NoLayers == [stdout |-> None, stderr |-> None, webview |-> None, file |-> None]

\* impl Default for Builder: the sink configuration.
ConfigIdle ==
    /\ targets = <<Stdout, Webview>>
    /\ rotation = "Daily"
    /\ max_file_size = None
    /\ use_colors = FALSE
    /\ set_default_subscriber = FALSE

\* The application before the plugin's setup hook runs.
SetupIdle ==
    /\ pc = "idle"
    /\ file_config = None
    /\ layers = NoLayers
    /\ guard = "none"
    /\ global_default = "none"
    /\ managed = FALSE
    /\ setup_result = None
    /\ sweeps = 0

\* The threads that log through one StripAnsiWriter.
Threads == {"t1", "t2"}

\* A StripAnsiWriter nobody has written to.
WriterIdle ==
    /\ mutex = [holder |-> None, poisoned |-> FALSE]
    /\ writer = [t \in Threads |-> "idle"]
    /\ unwritten = [t \in Threads |-> <<>>]
    /\ inner = <<>>
    /\ performed = <<>>

\* A WebviewLayer that has seen no event.
WebviewIdle ==
    /\ recorded = None
    /\ emitted = <<>>

\* A Builder no method has been called on.
BuilderIdle == builder_calls = <<>>

\* impl Default for Timings: an empty map, unlocked; no command issued.
TimerIdle ==
    /\ timings = {}
    /\ timings_lock = None
    /\ timer_calls = <<>>
    /\ reports = <<>>

\* The ANSI stripper's state while the other components run.
StripIdle ==
    /\ buf = <<>>
    /\ sink = <<>>
    /\ written = [state |-> "idle", n |-> 0]

InitStack ==
    /\ BuilderIdle
    /\ TimerIdle
    /\ ConfigIdle
    /\ SetupIdle
    /\ WriterIdle
    /\ WebviewIdle
    /\ StripIdle
    /\ FilterIdle
    /\ SweepIdle
    /\ call_stack \in {None} \cup {Some(t) : t \in TextsUpTo(StackAlphabet, MaxStackLen)}
    /\ ret = NoReturn
    /\ invoked = NoInvocation
    /\ event = NoEvent

\* CallStack::new(call_stack).location()
CallLocation ==
    /\ ret' = [op |-> "location", val |-> location(CallStackFrom(call_stack))]
    /\ UNCHANGED <<call_stack, invoked, event, stripVars, filterVars, sweepVars,
                   configVars, setupVars, writerVars, webviewVars, builderVars, timerVars>>

\* CallStack::new(call_stack).path()
CallPath ==
    /\ ret' = [op |-> "path", val |-> path(CallStackFrom(call_stack))]
    /\ UNCHANGED <<call_stack, invoked, event, stripVars, filterVars, sweepVars,
                   configVars, setupVars, writerVars, webviewVars, builderVars, timerVars>>

\* CallStack::new(call_stack).file_name()
CallFileName ==
    /\ ret' = [op |-> "file_name", val |-> file_name(CallStackFrom(call_stack))]
    /\ UNCHANGED <<call_stack, invoked, event, stripVars, filterVars, sweepVars,
                   configVars, setupVars, writerVars, webviewVars, builderVars, timerVars>>

\* The log command: one event with the empty target, the severity asked for,
\* the joined message and the location sized to the severity.
log(level, message) ==
    LET stack == CallStackFrom(call_stack)
        loc == LogLocation(level, stack)
    IN  /\ invoked' = [called |-> TRUE, level |-> level, message |-> message]
        /\ event' = [emitted |-> TRUE,
                     target |-> <<>>,
                     level |-> LevelFromLogLevel(level),
                     message |-> DisplayMessage(message),
                     loc |-> loc]
        /\ UNCHANGED <<call_stack, ret, stripVars, filterVars, sweepVars,
                   configVars, setupVars, writerVars, webviewVars, builderVars, timerVars>>

\* The three projections of a parsed stack, applied to every raw text.
NextStack ==
    \/ CallLocation
    \/ CallPath
    \/ CallFileName

SpecStack == InitStack /\ [][NextStack]_vars

\* The log command, invoked with every severity on every raw text.
InitLog ==
    /\ BuilderIdle
    /\ TimerIdle
    /\ ConfigIdle
    /\ SetupIdle
    /\ WriterIdle
    /\ WebviewIdle
    /\ StripIdle
    /\ FilterIdle
    /\ SweepIdle
    /\ call_stack \in {None} \cup {Some(t) : t \in TextsUpTo(StackAlphabet, MaxLogStackLen)}
    /\ ret = NoReturn
    /\ invoked = NoInvocation
    /\ event = NoEvent

NextLog ==
    \E level \in LogLevel, message \in LogMessages : log(level, message)

SpecLog == InitLog /\ [][NextLog]_vars

(***************************************************************************)
(* strip_ansi.rs                                                           *)
(***************************************************************************)
ESC == "\\x1b"

\* The bytes a buffer is made of: ESC, '[', 'm', a digit, ';' and any other byte.
ByteAlphabet == {ESC, "[", "m", "0", ";", "x"}

\* u8::is_ascii_digit
is_ascii_digit(c) == c = "0"

\* memchr::memchr(0x1b, buf): 0-based offset, -1 for None.
memchr_esc(b) == Find(b, <<ESC>>)

\* An inner loop that stops in front of the terminating 'm'.
RECURSIVE SkipSgr_LeaveM(_, _)
SkipSgr_LeaveM(b, i) ==
    IF i < Len(b)
    THEN LET c == b[i + 1]
         IN  IF c = "m" THEN i
             ELSE IF ~is_ascii_digit(c) /\ c # ";" THEN i + 1
             ELSE SkipSgr_LeaveM(b, i + 1)
    ELSE i

\* The inner `while i < buf.len()` loop: from the 0-based offset i (just after
\* ESC '['), the offset at which the outer loop resumes.  The byte that ends the
\* scan is consumed, whether it is 'm' or not.
RECURSIVE SkipSgr(_, _)
SkipSgr(b, i) ==
    IF i < Len(b)
    THEN LET c == b[i + 1]
         IN  IF c = "m" THEN i + 1
             ELSE IF ~is_ascii_digit(c) /\ c # ";" THEN i + 1
             ELSE SkipSgr(b, i + 1)
    ELSE i

\* The outer `while i < buf.len()` loop: the output vector at its end.
RECURSIVE StripLoop(_, _, _)
StripLoop(b, i, output) ==
    IF i < Len(b)
    THEN IF b[i + 1] = ESC /\ i + 1 < Len(b) /\ b[i + 2] = "["
         THEN StripLoop(b, SkipSgr(b, i + 2), output)
         ELSE StripLoop(b, i + 1, Append(output, b[i + 1]))
    ELSE output

\* The bytes strip_ansi_and_write passes to writer.write_all.
StrippedOutput(b) ==
    LET first_esc == memchr_esc(b)
    IN  IF first_esc = -1
        THEN b
        ELSE StripLoop(b, first_esc, SubSeq(b, 1, first_esc))

InitStrip ==
    /\ BuilderIdle
    /\ TimerIdle
    /\ ConfigIdle
    /\ SetupIdle
    /\ WriterIdle
    /\ WebviewIdle
    /\ FilterIdle
    /\ SweepIdle
    /\ call_stack = None
    /\ ret = NoReturn
    /\ invoked = NoInvocation
    /\ event = NoEvent
    /\ buf \in TextsUpTo(ByteAlphabet, MaxBufLen)
    /\ sink = <<>>
    /\ written = [state |-> "pending", n |-> 0]

\* strip_ansi_and_write on a writer whose write_all succeeds: the output is
\* appended to the sink and the call reports the input length.
strip_ansi_and_write_ok ==
    /\ written.state = "pending"
    /\ sink' = sink \o StrippedOutput(buf)
    /\ written' = [state |-> "Ok", n |-> Len(buf)]
    /\ UNCHANGED <<buf, stackVars, filterVars, sweepVars,
                   configVars, setupVars, writerVars, webviewVars, builderVars, timerVars>>

\* strip_ansi_and_write on a writer whose write_all fails: the error is returned
\* by `?`; how much of the output reached the sink before it is unspecified.
\* write_all of an empty output makes no write call and cannot fail.
strip_ansi_and_write_err ==
    /\ written.state = "pending"
    /\ StrippedOutput(buf) # <<>>
    /\ \E n \in 0..(Len(StrippedOutput(buf)) - 1) :
            sink' = sink \o SubSeq(StrippedOutput(buf), 1, n)
    /\ written' = [state |-> "Err", n |-> 0]
    /\ UNCHANGED <<buf, stackVars, filterVars, sweepVars,
                   configVars, setupVars, writerVars, webviewVars, builderVars, timerVars>>

NextStrip ==
    \/ strip_ansi_and_write_ok
    \/ strip_ansi_and_write_err

SpecStrip == InitStrip /\ [][NextStrip]_vars

(***************************************************************************)
(* lib.rs: configuring the filter, installing the subscriber, dispatch     *)
(***************************************************************************)
\* impl Default for Builder; no subscriber is installed yet.
InitFilter ==
    /\ BuilderIdle
    /\ TimerIdle
    /\ ConfigIdle
    /\ SetupIdle
    /\ WriterIdle
    /\ WebviewIdle
    /\ StripIdle
    /\ SweepIdle
    /\ call_stack = None
    /\ ret = NoReturn
    /\ invoked = NoInvocation
    /\ event = NoEvent
    /\ log_level = "WARN"
    /\ filter = <<>>
    /\ custom_filter = None
    /\ subscriber = None
    /\ delivery = NoDelivery

\* Builder::with_max_level
with_max_level(max_level) ==
    /\ subscriber = None
    /\ log_level' = max_level
    /\ UNCHANGED <<filter, custom_filter, subscriber, delivery, stackVars, stripVars, sweepVars,
                   configVars, setupVars, writerVars, webviewVars, builderVars, timerVars>>

\* Builder::with_target
with_target(target, level) ==
    /\ subscriber = None
    /\ filter' = Targets_with_target(filter, target, level)
    /\ UNCHANGED <<log_level, custom_filter, subscriber, delivery, stackVars, stripVars, sweepVars,
                   configVars, setupVars, writerVars, webviewVars, builderVars, timerVars>>

\* Builder::with_filter
with_filter(f) ==
    /\ subscriber = None
    /\ custom_filter' = Some(f)
    /\ UNCHANGED <<log_level, filter, subscriber, delivery, stackVars, stripVars, sweepVars,
                   configVars, setupVars, writerVars, webviewVars, builderVars, timerVars>>

\* acquire_logger, as far as the filters go: the subscriber is composed with the
\* custom filter layer and filter.with_default(log_level), and installed.
acquire_logger ==
    /\ subscriber = None
    /\ subscriber' = Some([filter |-> filter_with_default, custom_filter |-> custom_filter])
    /\ UNCHANGED <<log_level, filter, custom_filter, delivery, stackVars, stripVars, sweepVars,
                   configVars, setupVars, writerVars, webviewVars, builderVars, timerVars>>

\* Layered::enabled of the installed subscriber: both global filters must agree.
SubscriberEnabled(sub, target, level) ==
    /\ Targets_enabled(sub.filter, target, level)
    /\ sub.custom_filter # None => level \in sub.custom_filter[1]

\* An event with this target and level is dispatched to the installed subscriber.
Dispatch(target, level) ==
    /\ subscriber # None
    /\ delivery' = [dispatched |-> TRUE, target |-> target, level |-> level,
                    delivered |-> SubscriberEnabled(subscriber[1], target, level)]
    /\ UNCHANGED <<log_level, filter, custom_filter, subscriber, stackVars, stripVars, sweepVars,
                   configVars, setupVars, writerVars, webviewVars, builderVars, timerVars>>

NextFilter ==
    \/ \E max_level \in LevelFilters : with_max_level(max_level)
    \/ \E target \in RulePrefixes, level \in LevelFilters : with_target(target, level)
    \/ \E f \in FilterFns : with_filter(f)
    \/ acquire_logger
    \/ \E target \in EventTargets, level \in Levels : Dispatch(target, level)

SpecFilter == InitFilter /\ [][NextFilter]_vars

(***************************************************************************)
(* lib.rs: build_filter, called on a configured builder before build       *)
(***************************************************************************)
\* The Targets a builder holds after with_target calls for the given rules.
RECURSIVE FilterOf(_)
FilterOf(rules) ==
    IF DOMAIN rules = {} THEN <<>>
    ELSE LET p == CHOOSE q \in DOMAIN rules : TRUE
             rest == [q \in DOMAIN rules \ {p} |-> rules[q]]
         IN  Targets_with_target(FilterOf(rest), p, rules[p])

\* A builder configured with any maximum level, per-target rules and custom
\* filter, not built yet.
InitBuildFilter ==
    /\ BuilderIdle
    /\ TimerIdle
    /\ ConfigIdle
    /\ SetupIdle
    /\ WriterIdle
    /\ WebviewIdle
    /\ StripIdle
    /\ SweepIdle
    /\ call_stack = None
    /\ ret = NoReturn
    /\ invoked = NoInvocation
    /\ event = NoEvent
    /\ log_level \in LevelFilters
    /\ \E prefixes \in SUBSET RulePrefixes :
          \E rules \in [prefixes -> LevelFilters] : filter = FilterOf(rules)
    /\ custom_filter \in {None} \cup {Some(f) : f \in FilterFns}
    /\ subscriber = None
    /\ delivery = NoDelivery

\* builder.build_filter(): takes &self and returns a new Targets.
Builder_build_filter ==
    /\ subscriber = None
    /\ ret' = [op |-> "build_filter", val |-> build_filter]
    /\ UNCHANGED <<call_stack, invoked, event, filterVars, stripVars, sweepVars,
                   configVars, setupVars, writerVars, webviewVars, builderVars, timerVars>>

NextBuildFilter ==
    \/ Builder_build_filter
    \/ acquire_logger

SpecBuildFilter == InitBuildFilter /\ [][NextBuildFilter]_vars

(***************************************************************************)
(* lib.rs: the retention sweep run on a log directory                      *)
(***************************************************************************)
InitSweep ==
    /\ BuilderIdle
    /\ TimerIdle
    /\ ConfigIdle
    /\ SetupIdle
    /\ WriterIdle
    /\ WebviewIdle
    /\ StripIdle
    /\ FilterIdle
    /\ call_stack = None
    /\ ret = NoReturn
    /\ invoked = NoInvocation
    /\ event = NoEvent
    /\ dir \in SUBSET DirEntries
    /\ file_prefix \in FilePrefixes
    /\ rotation_strategy \in RotationStrategies
    /\ sweep = [state |-> "pending", listed |-> {}, failed |-> {}]

\* cleanup_old_logs when read_dir succeeds (or is not needed, with KeepAll):
\* every file beyond the retained count is removed unless its remove_file
\* fails, which is logged and skipped; the result is Ok.
cleanup_old_logs ==
    /\ sweep.state = "pending"
    /\ \E failing \in SUBSET FilesToRemove(dir, file_prefix, rotation_strategy) :
          /\ dir' = dir \ (FilesToRemove(dir, file_prefix, rotation_strategy) \ failing)
          /\ sweep' = [state |-> "Ok", listed |-> dir, failed |-> failing]
    /\ UNCHANGED <<file_prefix, rotation_strategy, stackVars, stripVars, filterVars,
                   configVars, setupVars, writerVars, webviewVars, builderVars, timerVars>>

\* cleanup_old_logs when read_dir fails: the error is returned by `?` and
\* nothing is removed.  KeepAll returns before reading the directory.
cleanup_old_logs_read_dir_err ==
    /\ sweep.state = "pending"
    /\ rotation_strategy.kind # "KeepAll"
    /\ sweep' = [state |-> "Err", listed |-> {}, failed |-> {}]
    /\ UNCHANGED <<dir, file_prefix, rotation_strategy, stackVars, stripVars, filterVars,
                   configVars, setupVars, writerVars, webviewVars, builderVars, timerVars>>

NextSweep ==
    \/ cleanup_old_logs
    \/ cleanup_old_logs_read_dir_err

SpecSweep == InitSweep /\ [][NextSweep]_vars

(***************************************************************************)
(* lib.rs: the plugin's setup hook and acquire_logger, step by step        *)
(***************************************************************************)
MaxTargets == 2

\* Result<(), Box<dyn Error>> of the setup hook: Ok, or the Error variant and
\* the call that produced it.
SetupOk == [ok |-> TRUE, error |-> "none", from |-> "none"]

SetupErr(variant, call) == [ok |-> FALSE, error |-> variant, from |-> call]

\* matches!(t, Target::LogDir { .. } | Target::Folder { .. }): the targets
\* resolve_file_target answers with Some.
IsFileTarget(t) == t.kind \in {"LogDir", "Folder"}

\* targets.iter().any(|t| matches!(t, ..))
HasTarget(kind) == \E i \in 1..Len(targets) : targets[i].kind = kind

\* A search that lets the last file target of the list win.
FirstFileTarget_Last ==
    LET idx == {i \in 1..Len(targets) : IsFileTarget(targets[i])}
    IN  IF idx = {} THEN None
        ELSE Some(targets[CHOOSE i \in idx : \A j \in idx : i >= j])

\* find_map: the first target resolve_file_target does not answer Ok(None) for.
FirstFileTarget ==
    LET idx == {i \in 1..Len(targets) : IsFileTarget(targets[i])}
    IN  IF idx = {} THEN None
        ELSE Some(targets[CHOOSE i \in idx : \A j \in idx : i <= j])

\* file_name.clone().unwrap_or_else(|| "app".to_string())
FileNameOf(t) == IF t.file_name = None THEN <<"app">> ELSE t.file_name[1]

\* A file layer that writes to the non-blocking writer directly and colors its
\* output as the console does.
FileLayer_Unwrapped(appender) ==
    [appender |-> appender, writer |-> "NonBlocking", ansi |-> use_colors]

\* The fmt layer of a file sink: the appender, wrapped in the non-blocking
\* writer and the StripAnsiWriter, with_ansi(false).
FileLayer(appender) ==
    [appender |-> appender, writer |-> "StripAnsiWriter", ansi |-> FALSE]

\* `let max_files = match rotation_strategy`, KeepAll being u32::MAX.
MaxFilesOf(strategy) ==
    CASE strategy.kind = "KeepAll" -> "u32::MAX"
      [] strategy.kind = "KeepOne" -> 1
      [] strategy.kind = "KeepSome" -> strategy.n

\* BasicRollingFileAppender::new(log_path, condition, max_files): the condition
\* has a time trigger for Daily and Hourly only, and the size trigger.
RollingFileAppender(size) ==
    [crate |-> "rolling_file",
     time |-> IF rotation \in {"Daily", "Hourly"} THEN Some(rotation) ELSE None,
     max_size |-> Some(size),
     max_files |-> Some(MaxFilesOf(rotation_strategy))]

\* RollingFileAppender::builder().rotation(..).filename_prefix(..)
\*     .filename_suffix("log").build(log_dir)
TracingAppender ==
    [crate |-> "tracing_appender",
     time |-> IF rotation = "Never" THEN None ELSE Some(rotation),
     max_size |-> None,
     max_files |-> None]

\* A frozen configuration, another crate's subscriber installed or not, and the
\* setup hook about to run.
InitSetup ==
    /\ BuilderIdle
    /\ TimerIdle
    /\ StripIdle
    /\ FilterIdle
    /\ WriterIdle
    /\ WebviewIdle
    /\ call_stack = None
    /\ ret = NoReturn
    /\ invoked = NoInvocation
    /\ event = NoEvent
    /\ targets \in TextsUpTo(Target, MaxTargets)
    /\ rotation \in Rotation
    /\ max_file_size \in MaxFileSizes
    /\ use_colors \in BOOLEAN
    /\ set_default_subscriber \in BOOLEAN
    /\ rotation_strategy \in AssemblyStrategies
    /\ dir = StartupDir
    /\ file_prefix = <<"app">>
    /\ sweep = NoSweep
    /\ pc = "setup"
    /\ file_config = None
    /\ layers = NoLayers
    /\ guard = "none"
    /\ global_default \in {"none", "other"}
    /\ managed = FALSE
    /\ setup_result = None
    /\ sweeps = 0

\* The setup closure when set_default_subscriber is false: acquire_logger is
\* not called and the hook returns Ok(()).
SetupWithoutSubscriber ==
    /\ pc = "setup"
    /\ ~set_default_subscriber
    /\ pc' = "running"
    /\ setup_result' = Some(SetupOk)
    /\ UNCHANGED <<file_config, layers, guard, global_default, managed, sweeps,
                   configVars, sweepVars, stackVars, stripVars, filterVars,
                   writerVars, webviewVars, builderVars, timerVars>>

\* A hook that assembles the sinks whether or not the subscriber was asked for.
FindFileTarget_Unconditional ==
    /\ pc = "setup"
    /\ file_config' = IF FirstFileTarget = None THEN None
                      ELSE Some([file_name |-> FileNameOf(FirstFileTarget[1])])
    /\ pc' = "resolved"
    /\ UNCHANGED <<layers, guard, global_default, managed, setup_result, sweeps,
                   configVars, sweepVars, stackVars, stripVars, filterVars,
                   writerVars, webviewVars, builderVars, timerVars>>

\* acquire_logger: find_map over the targets, the first file target resolved
\* with success (or no file target at all).
FindFileTarget ==
    /\ pc = "setup"
    /\ set_default_subscriber
    /\ file_config' = IF FirstFileTarget = None THEN None
                      ELSE Some([file_name |-> FileNameOf(FirstFileTarget[1])])
    /\ pc' = "resolved"
    /\ UNCHANGED <<layers, guard, global_default, managed, setup_result, sweeps,
                   configVars, sweepVars, stackVars, stripVars, filterVars,
                   writerVars, webviewVars, builderVars, timerVars>>

\* resolve_file_target of the first file target fails: app_log_dir()? of a
\* LogDir target with a tauri::Error, create_dir_all(..)? of either file target
\* with an io::Error.  `?` returns it from acquire_logger and from the hook.
FindFileTargetErr ==
    /\ pc = "setup"
    /\ set_default_subscriber
    /\ FirstFileTarget # None
    /\ \E e \in {SetupErr("Tauri", "app_log_dir"), SetupErr("Io", "create_dir_all")} :
          /\ e.from = "app_log_dir" => FirstFileTarget[1].kind = "LogDir"
          /\ setup_result' = Some(e)
    /\ pc' = "failed"
    /\ UNCHANGED <<file_config, layers, guard, global_default, managed, sweeps,
                   configVars, sweepVars, stackVars, stripVars, filterVars,
                   writerVars, webviewVars, builderVars, timerVars>>

\* The stdout, stderr and webview layers: with_ansi(use_ansi), use_ansi being
\* use_colors.
CreateConsoleLayers ==
    /\ pc = "resolved"
    /\ layers' = [layers EXCEPT
                    !.stdout = IF HasTarget("Stdout") THEN Some([ansi |-> use_colors]) ELSE None,
                    !.stderr = IF HasTarget("Stderr") THEN Some([ansi |-> use_colors]) ELSE None,
                    !.webview = IF HasTarget("Webview") THEN Some("WebviewLayer") ELSE None]
    /\ pc' = "console"
    /\ UNCHANGED <<file_config, guard, global_default, managed, setup_result, sweeps,
                   configVars, sweepVars, stackVars, stripVars, filterVars,
                   writerVars, webviewVars, builderVars, timerVars>>

\* A sweep that runs whether or not a maximum file size is set.
SweepOldLogs_Always ==
    /\ pc = "console"
    /\ file_config # None
    /\ sweeps = 0
    /\ \E failing \in SUBSET FilesToRemove(dir, file_config[1].file_name, rotation_strategy) :
          /\ dir' = dir \ (FilesToRemove(dir, file_config[1].file_name, rotation_strategy)
                              \ failing)
          /\ sweep' = [state |-> "Ok", listed |-> dir, failed |-> failing]
    /\ file_prefix' = file_config[1].file_name
    /\ sweeps' = sweeps + 1
    /\ pc' = IF max_file_size = None THEN "swept" ELSE "console"
    /\ UNCHANGED <<rotation_strategy, file_config, layers, guard, global_default,
                   managed, setup_result,
                   configVars, stackVars, stripVars, filterVars, writerVars, webviewVars, builderVars, timerVars>>

\* A sweep that gives up at a remove_file that fails and returns its error.
SweepOldLogs_AbortOnFailure ==
    /\ pc = "console"
    /\ file_config # None
    /\ max_file_size = None
    /\ \E failing \in SUBSET FilesToRemove(dir, file_config[1].file_name, rotation_strategy) :
          /\ dir' = IF failing = {}
                    THEN dir \ FilesToRemove(dir, file_config[1].file_name, rotation_strategy)
                    ELSE dir
          /\ sweep' = [state |-> IF failing = {} THEN "Ok" ELSE "Err",
                       listed |-> dir, failed |-> failing]
          /\ setup_result' = IF failing = {} THEN setup_result
                             ELSE Some(SetupErr("Io", "remove_file"))
          /\ pc' = IF failing = {} THEN "swept" ELSE "failed"
    /\ file_prefix' = file_config[1].file_name
    /\ sweeps' = sweeps + 1
    /\ UNCHANGED <<rotation_strategy, file_config, layers, guard, global_default,
                   managed,
                   configVars, stackVars, stripVars, filterVars, writerVars, webviewVars, builderVars, timerVars>>

\* `if max_file_size.is_none() { cleanup_old_logs(..)?; }` returning Ok: every
\* file beyond the retained count is removed unless its remove_file fails.
SweepOldLogs ==
    /\ pc = "console"
    /\ file_config # None
    /\ max_file_size = None
    /\ \E failing \in SUBSET FilesToRemove(dir, file_config[1].file_name, rotation_strategy) :
          /\ dir' = dir \ (FilesToRemove(dir, file_config[1].file_name, rotation_strategy)
                              \ failing)
          /\ sweep' = [state |-> "Ok", listed |-> dir, failed |-> failing]
    /\ file_prefix' = file_config[1].file_name
    /\ sweeps' = sweeps + 1
    /\ pc' = "swept"
    /\ UNCHANGED <<rotation_strategy, file_config, layers, guard, global_default,
                   managed, setup_result,
                   configVars, stackVars, stripVars, filterVars, writerVars, webviewVars, builderVars, timerVars>>

\* cleanup_old_logs(..)? returning the io::Error of read_dir.
SweepOldLogsErr ==
    /\ pc = "console"
    /\ file_config # None
    /\ max_file_size = None
    /\ rotation_strategy.kind # "KeepAll"
    /\ sweep' = [state |-> "Err", listed |-> {}, failed |-> {}]
    /\ file_prefix' = file_config[1].file_name
    /\ sweeps' = sweeps + 1
    /\ setup_result' = Some(SetupErr("Io", "read_dir"))
    /\ pc' = "failed"
    /\ UNCHANGED <<dir, rotation_strategy, file_config, layers, guard, global_default,
                   managed,
                   configVars, stackVars, stripVars, filterVars, writerVars, webviewVars, builderVars, timerVars>>

\* The appender is built, made non-blocking (which yields the WorkerGuard) and
\* wrapped: rolling_file's when a maximum size is set, tracing_appender's
\* otherwise.
CreateFileLayer ==
    /\ file_config # None
    /\ \/ pc = "console" /\ max_file_size # None
       \/ pc = "swept"
    /\ layers' = [layers EXCEPT
                    !.file = Some(FileLayer(IF max_file_size # None
                                            THEN RollingFileAppender(max_file_size[1])
                                            ELSE TracingAppender))]
    /\ guard' = "acquire_logger"
    /\ pc' = "file"
    /\ UNCHANGED <<file_config, global_default, managed, setup_result, sweeps,
                   configVars, sweepVars, stackVars, stripVars, filterVars,
                   writerVars, webviewVars, builderVars, timerVars>>

\* The appender's constructor fails: .map_err(std::io::Error::other)?
CreateFileLayerErr ==
    /\ file_config # None
    /\ \/ pc = "console" /\ max_file_size # None
       \/ pc = "swept"
    /\ setup_result' = Some(SetupErr("Io", "file_appender"))
    /\ pc' = "failed"
    /\ UNCHANGED <<file_config, layers, guard, global_default, managed, sweeps,
                   configVars, sweepVars, stackVars, stripVars, filterVars,
                   writerVars, webviewVars, builderVars, timerVars>>

\* No file target: (file_layer, guard) = (None, None).
NoFileLayer ==
    /\ pc = "console"
    /\ file_config = None
    /\ pc' = "file"
    /\ UNCHANGED <<file_config, layers, guard, global_default, managed, setup_result,
                   sweeps,
                   configVars, sweepVars, stackVars, stripVars, filterVars,
                   writerVars, webviewVars, builderVars, timerVars>>

\* tracing::subscriber::set_global_default(subscriber)? with the slot free: the
\* composed subscriber becomes the process-wide default.
SetGlobalDefault ==
    /\ pc = "file"
    /\ global_default = "none"
    /\ global_default' = "plugin"
    /\ subscriber' = Some([filter |-> filter_with_default, custom_filter |-> custom_filter])
    /\ pc' = "installed"
    /\ UNCHANGED <<log_level, filter, custom_filter, delivery,
                   file_config, layers, guard, managed, setup_result, sweeps,
                   configVars, sweepVars, stackVars, stripVars, writerVars, webviewVars, builderVars, timerVars>>

\* A set_global_default whose error is ignored: assembly goes on with the other
\* subscriber still in the slot.
SetGlobalDefaultErr_Ignored ==
    /\ pc = "file"
    /\ global_default # "none"
    /\ pc' = "installed"
    /\ UNCHANGED <<file_config, layers, guard, global_default, managed, setup_result,
                   sweeps,
                   configVars, sweepVars, stackVars, stripVars, filterVars,
                   writerVars, webviewVars, builderVars, timerVars>>

\* set_global_default(subscriber)? with the slot taken: SetGlobalDefaultError is
\* returned; the subscriber and the local guard are dropped with the frame.
SetGlobalDefaultErr ==
    /\ pc = "file"
    /\ global_default # "none"
    /\ setup_result' = Some(SetupErr("SetGlobalDefault", "set_global_default"))
    /\ guard' = IF guard = "none" THEN "none" ELSE "dropped"
    /\ pc' = "failed"
    /\ UNCHANGED <<file_config, layers, global_default, managed, sweeps,
                   configVars, sweepVars, stackVars, stripVars, filterVars,
                   writerVars, webviewVars, builderVars, timerVars>>

\* A closure that lets the returned guard go out of scope.
ManageGuard_Dropped ==
    /\ pc = "installed"
    /\ managed' = FALSE
    /\ guard' = IF guard = "none" THEN "none" ELSE "dropped"
    /\ pc' = "managed"
    /\ UNCHANGED <<file_config, layers, global_default, setup_result, sweeps,
                   configVars, sweepVars, stackVars, stripVars, filterVars,
                   writerVars, webviewVars, builderVars, timerVars>>

\* Back in the setup closure with Ok(guard):
\* `if guard.is_some() { app.manage(LogGuard(guard)); }`
ManageGuard ==
    /\ pc = "installed"
    /\ managed' = (guard # "none")
    /\ guard' = IF guard = "none" THEN "none" ELSE "LogGuard"
    /\ pc' = "managed"
    /\ UNCHANGED <<file_config, layers, global_default, setup_result, sweeps,
                   configVars, sweepVars, stackVars, stripVars, filterVars,
                   writerVars, webviewVars, builderVars, timerVars>>

\* The closure's final Ok(()).
SetupReturn ==
    /\ pc = "managed"
    /\ setup_result' = Some(SetupOk)
    /\ pc' = "running"
    /\ UNCHANGED <<file_config, layers, guard, global_default, managed, sweeps,
                   configVars, sweepVars, stackVars, stripVars, filterVars,
                   writerVars, webviewVars, builderVars, timerVars>>

\* The application is torn down: its managed state is dropped, and a LogGuard
\* in it drops the WorkerGuard.
Teardown ==
    /\ pc = "running"
    /\ managed' = FALSE
    /\ guard' = IF managed THEN "dropped" ELSE guard
    /\ pc' = "torn_down"
    /\ UNCHANGED <<file_config, layers, global_default, setup_result, sweeps,
                   configVars, sweepVars, stackVars, stripVars, filterVars,
                   writerVars, webviewVars, builderVars, timerVars>>

NextSetup ==
    \/ SetupWithoutSubscriber
    \/ FindFileTarget
    \/ FindFileTargetErr
    \/ CreateConsoleLayers
    \/ SweepOldLogs
    \/ SweepOldLogsErr
    \/ CreateFileLayer
    \/ CreateFileLayerErr
    \/ NoFileLayer
    \/ SetGlobalDefault
    \/ SetGlobalDefaultErr
    \/ ManageGuard
    \/ SetupReturn
    \/ Teardown

SpecSetup == InitSetup /\ [][NextSetup]_vars

(***************************************************************************)
(* strip_ansi.rs: StripAnsiWriter shared by concurrent writers             *)
(***************************************************************************)
MaxWrites == 3

\* The buffers the threads write: colored text, text before a sequence, and a
\* sequence alone.
WriterBufs ==
    {<<ESC, "[", "0", "m", "x", "x">>, <<"x", ESC, "[", "m">>, <<ESC, "[", "m">>}

\* The threads that hold a StripAnsiWriterGuard.
GuardHolders == {t \in Threads : writer[t] \in {"guard", "writing"}}

\* The index in `performed` of the last write of thread t.
CurrentWrite(t) ==
    LET mine == {k \in 1..Len(performed) : performed[k].thread = t}
    IN  CHOOSE k \in mine : \A j \in mine : j <= k

InitWriter ==
    /\ BuilderIdle
    /\ TimerIdle
    /\ ConfigIdle
    /\ SetupIdle
    /\ WebviewIdle
    /\ StripIdle
    /\ FilterIdle
    /\ SweepIdle
    /\ call_stack = None
    /\ ret = NoReturn
    /\ invoked = NoInvocation
    /\ event = NoEvent
    /\ mutex = [holder |-> None, poisoned |-> FALSE]
    /\ writer = [t \in Threads |-> "idle"]
    /\ unwritten = [t \in Threads |-> <<>>]
    /\ inner = <<>>
    /\ performed = <<>>

\* A make_writer that hands out a guard without waiting for the lock.
make_writer_NoLock(t) ==
    /\ writer[t] = "idle"
    /\ mutex' = [mutex EXCEPT !.holder = Some(t)]
    /\ writer' = [writer EXCEPT ![t] = "guard"]
    /\ UNCHANGED <<unwritten, inner, performed,
                   stackVars, stripVars, filterVars, sweepVars, configVars, setupVars,
                   webviewVars, builderVars, timerVars>>

\* MakeWriter::make_writer: self.inner.lock() blocks while another guard exists;
\* a poisoned lock is taken all the same, unwrap_or_else(|e| e.into_inner()).
make_writer(t) ==
    /\ writer[t] = "idle"
    /\ mutex.holder = None
    /\ mutex' = [mutex EXCEPT !.holder = Some(t)]
    /\ writer' = [writer EXCEPT ![t] = "guard"]
    /\ UNCHANGED <<unwritten, inner, performed,
                   stackVars, stripVars, filterVars, sweepVars, configVars, setupVars,
                   webviewVars, builderVars, timerVars>>

\* Write::write of the guard: strip_ansi_and_write builds the output and calls
\* write_all on the wrapped writer.
guard_write(t, b) ==
    /\ writer[t] = "guard"
    /\ Len(performed) < MaxWrites
    /\ performed' = Append(performed, [thread |-> t, buf |-> b])
    /\ unwritten' = [unwritten EXCEPT ![t] = StrippedOutput(b)]
    /\ writer' = [writer EXCEPT ![t] = "writing"]
    /\ UNCHANGED <<mutex, inner,
                   stackVars, stripVars, filterVars, sweepVars, configVars, setupVars,
                   webviewVars, builderVars, timerVars>>

\* write_all hands the next byte of the output to the wrapped writer.
inner_write(t) ==
    /\ writer[t] = "writing"
    /\ unwritten[t] # <<>>
    /\ inner' = Append(inner, [byte |-> Head(unwritten[t]), write |-> CurrentWrite(t)])
    /\ unwritten' = [unwritten EXCEPT ![t] = Tail(unwritten[t])]
    /\ UNCHANGED <<mutex, writer, performed,
                   stackVars, stripVars, filterVars, sweepVars, configVars, setupVars,
                   webviewVars, builderVars, timerVars>>

\* write_all is done and Write::write returns Ok(input_len).
write_return(t) ==
    /\ writer[t] = "writing"
    /\ unwritten[t] = <<>>
    /\ writer' = [writer EXCEPT ![t] = "guard"]
    /\ UNCHANGED <<mutex, unwritten, inner, performed,
                   stackVars, stripVars, filterVars, sweepVars, configVars, setupVars,
                   webviewVars, builderVars, timerVars>>

\* The StripAnsiWriterGuard is dropped: its MutexGuard unlocks the mutex.
drop_guard(t) ==
    /\ writer[t] = "guard"
    /\ mutex' = [mutex EXCEPT !.holder = None]
    /\ writer' = [writer EXCEPT ![t] = "idle"]
    /\ UNCHANGED <<unwritten, inner, performed,
                   stackVars, stripVars, filterVars, sweepVars, configVars, setupVars,
                   webviewVars, builderVars, timerVars>>

\* The thread panics while it holds the guard: unwinding drops the MutexGuard,
\* which poisons and unlocks the mutex; what was not yet written is lost.
panic_with_guard(t) ==
    /\ writer[t] \in {"guard", "writing"}
    /\ mutex' = [holder |-> None, poisoned |-> TRUE]
    /\ writer' = [writer EXCEPT ![t] = "panicked"]
    /\ unwritten' = [unwritten EXCEPT ![t] = <<>>]
    /\ UNCHANGED <<inner, performed,
                   stackVars, stripVars, filterVars, sweepVars, configVars, setupVars,
                   webviewVars, builderVars, timerVars>>

NextWriter ==
    \/ \E t \in Threads : make_writer(t)
    \/ \E t \in Threads, b \in WriterBufs : guard_write(t, b)
    \/ \E t \in Threads : inner_write(t)
    \/ \E t \in Threads : write_return(t)
    \/ \E t \in Threads : drop_guard(t)
    \/ \E t \in Threads : panic_with_guard(t)

SpecWriter == InitWriter /\ [][NextWriter]_vars

(***************************************************************************)
(* layer.rs: WebviewLayer, the sink that forwards events to the frontend   *)
(***************************************************************************)
MaxFields == 2

\* The names of the fields an event records: the message, the unnamed field
\* the log command puts the location in, and any other key.
FieldNames == {"message", "", "k"}

\* The texts a field's value formats to.
FieldTexts == {<<>>, <<"m">>, <<"src">>}

\* The fields of an event, in the order they are recorded; a name occurs once.
FieldLists ==
    {fs \in TextsUpTo([name : FieldNames, text : FieldTexts], MaxFields) :
        \A i, j \in 1..Len(fs) : fs[i].name = fs[j].name => i = j}

\* A conversion back that takes WARN for Error and ERROR for Warn.
LogLevelFromLevel_Swapped(level) ==
    CASE level = "TRACE" -> "Trace"
      [] level = "DEBUG" -> "Debug"
      [] level = "INFO" -> "Info"
      [] level = "WARN" -> "Error"
      [] level = "ERROR" -> "Warn"

\* impl From<tracing::Level> for LogLevel
LogLevelFromLevel(level) ==
    CASE level = "TRACE" -> "Trace"
      [] level = "DEBUG" -> "Debug"
      [] level = "INFO" -> "Info"
      [] level = "WARN" -> "Warn"
      [] level = "ERROR" -> "Error"

\* MessageVisitor::record_debug / record_str: the field's text becomes the
\* message when the field is named "message" or the message is still empty.
record_field(message, field) ==
    IF field.name = "message" \/ message = <<>> THEN field.text ELSE message

\* event.record(&mut visitor): the visitor sees the fields in order.
RECURSIVE Visit(_, _)
Visit(fields, message) ==
    IF fields = <<>> THEN message
    ELSE Visit(Tail(fields), record_field(message, Head(fields)))

InitWebview ==
    /\ BuilderIdle
    /\ TimerIdle
    /\ ConfigIdle
    /\ SetupIdle
    /\ WriterIdle
    /\ StripIdle
    /\ FilterIdle
    /\ SweepIdle
    /\ call_stack = None
    /\ ret = NoReturn
    /\ invoked = NoInvocation
    /\ event = NoEvent
    /\ recorded \in {Some([level |-> l, fields |-> fs]) : l \in Levels, fs \in FieldLists}
    /\ emitted = <<>>

\* WebviewLayer::on_event: the visitor's message and the event's level are
\* emitted on "tracing://log"; the result of emit is dropped.
on_event ==
    /\ emitted = <<>>
    /\ emitted' = Append(emitted,
                         [channel |-> "tracing://log",
                          payload |-> [message |-> Visit(recorded[1].fields, <<>>),
                                       level |-> LogLevelFromLevel(recorded[1].level)]])
    /\ UNCHANGED <<recorded,
                   stackVars, stripVars, filterVars, sweepVars, configVars, setupVars,
                   writerVars, builderVars, timerVars>>

NextWebview == on_event

SpecWebview == InitWebview /\ [][NextWebview]_vars

(***************************************************************************)
(* lib.rs: the Builder's methods, called one after another                 *)
(***************************************************************************)
\* One call of a builder method, as the history of calls records it.
Called(method, arg) == [method |-> method, arg |-> arg]

\* Builder::new() / impl Default for Builder, no method called yet.
InitBuilder ==
    /\ BuilderIdle
    /\ ConfigIdle
    /\ TimerIdle
    /\ call_stack = None
    /\ ret = NoReturn
    /\ invoked = NoInvocation
    /\ event = NoEvent
    /\ StripIdle
    /\ FilterIdle
    /\ SweepIdle
    /\ SetupIdle
    /\ WriterIdle
    /\ WebviewIdle

\* What every builder method leaves alone, besides the fields it assigns.
BuilderRest ==
    UNCHANGED <<stackVars, stripVars, filterVars, setupVars, writerVars, webviewVars,
                timerVars, dir, file_prefix, sweep>>

\* Builder::target: self.targets.push(target).
Builder_target(t) ==
    /\ Len(builder_calls) < MaxBuilderCalls
    /\ targets' = Append(targets, t)
    /\ builder_calls' = Append(builder_calls, Called("target", t))
    /\ UNCHANGED <<rotation, max_file_size, use_colors, set_default_subscriber,
                   rotation_strategy>>
    /\ BuilderRest

\* Builder::with_file_logging: self.target(Target::LogDir { file_name: None }).
Builder_with_file_logging ==
    /\ Len(builder_calls) < MaxBuilderCalls
    /\ targets' = Append(targets, LogDir(None))
    /\ builder_calls' = Append(builder_calls, Called("with_file_logging", None))
    /\ UNCHANGED <<rotation, max_file_size, use_colors, set_default_subscriber,
                   rotation_strategy>>
    /\ BuilderRest

\* A targets() that extends the list instead of replacing it.
Builder_targets_Extend(ts) ==
    /\ Len(builder_calls) < MaxBuilderCalls
    /\ targets' = targets \o ts
    /\ builder_calls' = Append(builder_calls, Called("targets", ts))
    /\ UNCHANGED <<rotation, max_file_size, use_colors, set_default_subscriber,
                   rotation_strategy>>
    /\ BuilderRest

\* Builder::targets: self.targets = targets.into_iter().collect().
Builder_targets(ts) ==
    /\ Len(builder_calls) < MaxBuilderCalls
    /\ targets' = ts
    /\ builder_calls' = Append(builder_calls, Called("targets", ts))
    /\ UNCHANGED <<rotation, max_file_size, use_colors, set_default_subscriber,
                   rotation_strategy>>
    /\ BuilderRest

\* Builder::clear_targets: self.targets.clear().
Builder_clear_targets ==
    /\ Len(builder_calls) < MaxBuilderCalls
    /\ targets' = <<>>
    /\ builder_calls' = Append(builder_calls, Called("clear_targets", None))
    /\ UNCHANGED <<rotation, max_file_size, use_colors, set_default_subscriber,
                   rotation_strategy>>
    /\ BuilderRest

\* Builder::with_rotation: self.rotation = rotation.
Builder_with_rotation(r) ==
    /\ Len(builder_calls) < MaxBuilderCalls
    /\ rotation' = r
    /\ builder_calls' = Append(builder_calls, Called("with_rotation", r))
    /\ UNCHANGED <<targets, max_file_size, use_colors, set_default_subscriber,
                   rotation_strategy>>
    /\ BuilderRest

\* Builder::with_rotation_strategy: self.rotation_strategy = strategy.
Builder_with_rotation_strategy(strategy) ==
    /\ Len(builder_calls) < MaxBuilderCalls
    /\ rotation_strategy' = strategy
    /\ builder_calls' = Append(builder_calls, Called("with_rotation_strategy", strategy))
    /\ UNCHANGED <<targets, rotation, max_file_size, use_colors, set_default_subscriber>>
    /\ BuilderRest

\* Builder::with_max_file_size: self.max_file_size = Some(size).
Builder_with_max_file_size(size) ==
    /\ Len(builder_calls) < MaxBuilderCalls
    /\ max_file_size' = Some(size)
    /\ builder_calls' = Append(builder_calls, Called("with_max_file_size", size))
    /\ UNCHANGED <<targets, rotation, use_colors, set_default_subscriber,
                   rotation_strategy>>
    /\ BuilderRest

\* Builder::with_colors: ANSI on for the formatter, self.use_colors = true.
Builder_with_colors ==
    /\ Len(builder_calls) < MaxBuilderCalls
    /\ use_colors' = TRUE
    /\ builder_calls' = Append(builder_calls, Called("with_colors", None))
    /\ UNCHANGED <<targets, rotation, max_file_size, set_default_subscriber,
                   rotation_strategy>>
    /\ BuilderRest

\* Builder::with_default_subscriber: self.set_default_subscriber = true.
Builder_with_default_subscriber ==
    /\ Len(builder_calls) < MaxBuilderCalls
    /\ set_default_subscriber' = TRUE
    /\ builder_calls' = Append(builder_calls, Called("with_default_subscriber", None))
    /\ UNCHANGED <<targets, rotation, max_file_size, use_colors, rotation_strategy>>
    /\ BuilderRest

NextBuilder ==
    \/ \E t \in Target : Builder_target(t)
    \/ Builder_with_file_logging
    \/ \E ts \in {<<>>, <<Stderr>>, <<LogDir(None), Stdout>>} : Builder_targets(ts)
    \/ Builder_clear_targets
    \/ \E r \in Rotation : Builder_with_rotation(r)
    \/ \E strategy \in AssemblyStrategies : Builder_with_rotation_strategy(strategy)
    \/ \E size \in {1} : Builder_with_max_file_size(size)
    \/ Builder_with_colors
    \/ Builder_with_default_subscriber

SpecBuilder == InitBuilder /\ [][NextBuilder]_vars

(***************************************************************************)
(* commands.rs / timing.rs: the time and time_end commands                 *)
(***************************************************************************)
\* The labels of the windows that invoke the commands; a label may hold
\* alphanumerics and any of - / : _
WindowLabels == {<<"w">>, <<"w", ":", "x">>}

\* The timer labels the frontend passes.
TimerLabels == {<<"t">>, <<"x", ":", "t">>}

TIME_END_SPAN == <<"end">>

\* let key = format!("{}:{}", window.label(), label)
TimerKey(window, label) == window \o <<":">> \o label

\* HashMap::get: the entry stored under the key, if any.
TimingOf(key) ==
    LET hits == {t \in timings : t.key = key}
    IN  IF hits = {} THEN None ELSE Some(CHOOSE t \in hits : TRUE)

\* The position of a call in the order in which the calls held the lock.
NextTurn == Cardinality({i \in 1..Len(timer_calls) : timer_calls[i].turn # 0}) + 1

\* Setup has managed Timings::default(); no command was invoked yet.
InitTimers ==
    /\ TimerIdle
    /\ BuilderIdle
    /\ ConfigIdle
    /\ SetupIdle
    /\ WriterIdle
    /\ WebviewIdle
    /\ StripIdle
    /\ SweepIdle
    /\ FilterIdle
    /\ call_stack = None
    /\ ret = NoReturn
    /\ invoked = NoInvocation
    /\ event = NoEvent

TimersRest ==
    UNCHANGED <<stackVars, stripVars, filterVars, sweepVars, configVars, setupVars,
                writerVars, webviewVars, builderVars>>

\* The time command up to app.time(key).await reaching lock().await.
commands_time(window, label) ==
    /\ Len(timer_calls) < MaxTimerCalls
    /\ timer_calls' = Append(timer_calls,
            [op |-> "time", window |-> window, label |-> label,
             key |-> TimerKey(window, label), call_stack |-> None,
             pc |-> "lock", found |-> None, turn |-> 0])
    /\ UNCHANGED <<timings, timings_lock, reports>>
    /\ TimersRest

\* The time_end command up to app.time_end(key, call_stack).await reaching
\* lock().await.
commands_time_end(window, label, stack) ==
    /\ Len(timer_calls) < MaxTimerCalls
    /\ timer_calls' = Append(timer_calls,
            [op |-> "time_end", window |-> window, label |-> label,
             key |-> TimerKey(window, label), call_stack |-> stack,
             pc |-> "lock", found |-> None, turn |-> 0])
    /\ UNCHANGED <<timings, timings_lock, reports>>
    /\ TimersRest

\* state::<Timings>().lock().await: the call gets the mutex when it is free.
lock(i) ==
    /\ timer_calls[i].pc = "lock"
    /\ timings_lock = None
    /\ timings_lock' = Some(i)
    /\ timer_calls' = [timer_calls EXCEPT ![i].pc = "locked"]
    /\ UNCHANGED <<timings, reports>>
    /\ TimersRest

\* LoggerExt::time under the lock: insert(label, Instant::now()), replacing the
\* entry of the same key (found is what insert returns), then the guard drops.
time(i) ==
    /\ timer_calls[i].op = "time"
    /\ timings_lock = Some(i)
    /\ LET key == timer_calls[i].key
       IN  /\ timings' = {t \in timings : t.key # key} \cup {[key |-> key, started |-> i]}
           /\ timer_calls' = [timer_calls EXCEPT ![i].pc = "done",
                                                 ![i].found = TimingOf(key),
                                                 ![i].turn = NextTurn]
    /\ timings_lock' = None
    /\ UNCHANGED reports
    /\ TimersRest

\* A time_end that reads the entry and leaves it in the map.
time_end_Get(i) ==
    /\ timer_calls[i].op = "time_end"
    /\ timings_lock = Some(i)
    /\ LET key == timer_calls[i].key
           caller == file_name(CallStackFrom(timer_calls[i].call_stack))
           started == TimingOf(key)
       IN  /\ timings' = timings
           /\ timer_calls' = [timer_calls EXCEPT ![i].pc = "done",
                                                 ![i].found = started,
                                                 ![i].turn = NextTurn]
           /\ reports' = Append(reports,
                  IF started # None
                  THEN [target |-> TIME_END_SPAN, level |-> "TRACE",
                        message |-> <<"elapsed since", started[1].started>>,
                        caller |-> caller]
                  ELSE [target |-> TIME_END_SPAN, level |-> "WARN",
                        message |-> <<"Timing label not found: ">> \o key,
                        caller |-> caller])
    /\ timings_lock' = None
    /\ TimersRest

\* LoggerExt::time_end under the lock: remove(&label); the elapsed time of the
\* removed entry is reported at TRACE, a missing entry at WARN; then the guard
\* drops.
time_end(i) ==
    /\ timer_calls[i].op = "time_end"
    /\ timings_lock = Some(i)
    /\ LET key == timer_calls[i].key
           caller == file_name(CallStackFrom(timer_calls[i].call_stack))
           started == TimingOf(key)
       IN  /\ timings' = {t \in timings : t.key # key}
           /\ timer_calls' = [timer_calls EXCEPT ![i].pc = "done",
                                                 ![i].found = started,
                                                 ![i].turn = NextTurn]
           /\ reports' = Append(reports,
                  IF started # None
                  THEN [target |-> TIME_END_SPAN, level |-> "TRACE",
                        message |-> <<"elapsed since", started[1].started>>,
                        caller |-> caller]
                  ELSE [target |-> TIME_END_SPAN, level |-> "WARN",
                        message |-> <<"Timing label not found: ">> \o key,
                        caller |-> caller])
    /\ timings_lock' = None
    /\ TimersRest

NextTimers ==
    \/ \E window \in WindowLabels, label \in TimerLabels : commands_time(window, label)
    \/ \E window \in WindowLabels, label \in TimerLabels, stack \in {Some(<<"a", "/", "a">>)} :
          commands_time_end(window, label, stack)
    \/ \E i \in 1..Len(timer_calls) : lock(i)
    \/ \E i \in 1..Len(timer_calls) : time(i)
    \/ \E i \in 1..Len(timer_calls) : time_end(i)

SpecTimers == InitTimers /\ [][NextTimers]_vars

(***************************************************************************)
(* Properties of the call-stack parser and the log command                 *)
(***************************************************************************)
\* The lines of the raw text of the current state.
RawLines == CallStackFrom(call_stack)

NodeModulesMarker == <<"node_", "modules">>

NativeCodeMarker == <<"[native code]">>

HasNoFilterMarker(line) ==
    /\ ~Contains(line, NodeModulesMarker)
    /\ ~Contains(line, <<"forEach@", "[native code]">>)

Survives(line) == fmap_location(line) # None

\* The frames the filter lets through, in order.
SurvivingFrames == SelectSeq(RawLines, Survives)

\* What the claims say a surviving frame looks like in location(): the text after
\* the first "/" that follows the first "localhost:", the whole frame otherwise.
WithoutLocalhostPrefix(line) ==
    LET hosts == {k \in 1..Len(line) : line[k] = "localhost:"}
        first == CHOOSE k \in hosts : \A h \in hosts : k <= h
        slashes == IF hosts = {} THEN {} ELSE {j \in (first + 1)..Len(line) : line[j] = "/"}
        slash == CHOOSE j \in slashes : \A x \in slashes : j <= x
    IN  IF slashes = {} THEN line ELSE SubSeq(line, slash + 1, Len(line))

IsSuffix(suffix, s) ==
    /\ Len(suffix) <= Len(s)
    /\ SubSeq(s, Len(s) - Len(suffix) + 1, Len(s)) = suffix

\* C1: for every call of the log command with severity S, the location of the
\* emitted event is location() when S is Trace or Error, path() when S is Debug
\* or Warn and file_name() when S is Info, and the event has the level S.
C1_SeverityProjection ==
    invoked.called =>
        /\ event.emitted
        /\ invoked.level \in {"Trace", "Error"} => event.loc = location(RawLines)
        /\ invoked.level \in {"Debug", "Warn"} => event.loc = path(RawLines)
        /\ invoked.level = "Info" => event.loc = file_name(RawLines)
        /\ <<invoked.level, event.level>> \in
              {<<"Trace", "TRACE">>, <<"Debug", "DEBUG">>, <<"Info", "INFO">>,
               <<"Warn", "WARN">>, <<"Error", "ERROR">>}

\* A Debug call on a stack whose three projections all differ.
C1_Witness ==
    /\ invoked.called
    /\ invoked.level = "Debug"
    /\ location(RawLines) # path(RawLines)
    /\ path(RawLines) # file_name(RawLines)
    /\ location(RawLines) # file_name(RawLines)

\* C5: location() never contains "node_modules": every line with that marker is
\* dropped, and the lines without a filter marker are all there, in their
\* original order, joined by "#".
C5_NodeModulesFiltered ==
    ret.op = "location" =>
        LET kept == SelectSeq(RawLines, HasNoFilterMarker)
        IN  /\ ~Contains(ret.val, NodeModulesMarker)
            /\ ret.val = Join([i \in 1..Len(kept) |-> strip_localhost(kept[i])], HASH)

\* location() of a stack with a vendored frame and a non-empty frame that stays.
C5_Witness ==
    /\ ret.op = "location"
    /\ \E i \in 1..Len(RawLines) : Contains(RawLines[i], NodeModulesMarker)
    /\ ret.val # <<>>

\* C6: location() never contains a native-code frame: its text has no
\* "[native code]" in it, whatever function the frame names.
C6_NativeCodeFiltered ==
    ret.op = "location" => ~Contains(ret.val, NativeCodeMarker)

C8_PathIsLastFrame ==
    (ret.op = "path" /\ SurvivingFrames # <<>>) =>
        ret.val = strip_localhost(SurvivingFrames[Len(SurvivingFrames)])

\* C9: file_name() has no "/" in it and is a suffix of path().
C9_FileNameOfLastFrame ==
    ret.op = "file_name" =>
        /\ ~Contains(ret.val, SLASH)
        /\ IsSuffix(ret.val, path(RawLines))

\* C10: a stack built from an absent or empty text has exactly one line, the
\* empty one, and location(), path() and file_name() are all empty, never "unknown".
C10_EmptyStack ==
    (call_stack = None \/ call_stack = Some(<<>>)) =>
        /\ CallStackFrom(call_stack) = << <<>> >>
        /\ ret.val = <<>>
        /\ ret.val # UNKNOWN

\* file_name() called on the stack of an absent text.
C10_Witness ==
    /\ call_stack = None
    /\ ret.op = "file_name"

(***************************************************************************)
(* Properties of the ANSI stripper                                         *)
(***************************************************************************)
IsSgrParam(c) == c \in {"0", ";"}

\* ESC '[' at the 1-based positions s, s+1, then parameters only, then 'm' at e.
IsSgrSequence(b, s, e) ==
    /\ s + 2 <= e
    /\ e <= Len(b)
    /\ b[s] = ESC
    /\ b[s + 1] = "["
    /\ b[e] = "m"
    /\ \A k \in (s + 2)..(e - 1) : IsSgrParam(b[k])

\* Every ESC '[' of the buffer starts a complete SGR sequence.
WellFormedSgr(b) ==
    \A s \in 1..(Len(b) - 1) :
        (b[s] = ESC /\ b[s + 1] = "[") => \E e \in 1..Len(b) : IsSgrSequence(b, s, e)

\* The 1-based position i lies inside a complete SGR sequence.
InSgrSequence(b, i) ==
    \E s \in 1..i, e \in i..Len(b) : IsSgrSequence(b, s, e)

\* The buffer without the bytes of its SGR sequences, the rest in order.
RECURSIVE WithoutSgr(_, _)
WithoutSgr(b, i) ==
    IF i > Len(b) THEN <<>>
    ELSE (IF InSgrSequence(b, i) THEN <<>> ELSE <<b[i]>>) \o WithoutSgr(b, i + 1)

\* C3: for a buffer whose every ESC '[' is followed by digits or ';' and then
\* 'm', the sink receives the input without those sequences and with every
\* other byte in order (a lone ESC too); a buffer with no ESC arrives
\* byte-identical; the call reports the full input length.
C3_StripsSgrOnly ==
    (written.state = "Ok" /\ WellFormedSgr(buf)) =>
        /\ sink = WithoutSgr(buf, 1)
        /\ (~Contains(buf, <<ESC>>) => sink = buf)
        /\ written.n = Len(buf)

\* A successful write of a buffer with a lone ESC, a complete sequence and text.
C3_Witness ==
    /\ written.state = "Ok"
    /\ WellFormedSgr(buf)
    /\ Len(buf) = 5
    /\ buf[1] = ESC
    /\ buf[2] = ESC
    /\ buf[3] = "["
    /\ buf[5] = "m"
    /\ sink = <<ESC>>

\* C11: stripping is idempotent: the output written for a buffer, stripped
\* again, is that same output.
C11_Idempotent ==
    written.state = "Ok" =>
        /\ sink = StrippedOutput(buf)
        /\ StrippedOutput(sink) = sink

\* The 1-based positions at which an ESC '[' pair starts.
SgrStarts(b) == {s \in 1..(Len(b) - 1) : b[s] = ESC /\ b[s + 1] = "["}

\* The 1-based positions after the pair at s that hold no parameter byte.
ScanStops(b, s) == {e \in (s + 2)..Len(b) : ~IsSgrParam(b[e])}

\* C12: when the parameter scan of the first ESC '[' of a buffer stops at a byte
\* that is neither a digit, ';' nor 'm', the sink receives the bytes in front of
\* the sequence and then that byte and everything after it, processed as
\* ordinary input: nothing that follows the malformed sequence is removed.
C12_StopByteResumes ==
    (written.state = "Ok" /\ SgrStarts(buf) # {}) =>
        LET s == CHOOSE x \in SgrStarts(buf) : \A y \in SgrStarts(buf) : x <= y
            stops == ScanStops(buf, s)
            e == CHOOSE x \in stops : \A y \in stops : x <= y
        IN  (stops # {} /\ buf[e] # "m") =>
                sink = SubSeq(buf, 1, s - 1) \o StrippedOutput(SubSeq(buf, e, Len(buf)))

(***************************************************************************)
(* Properties of the level/target filter                                   *)
(***************************************************************************)
\* The rules configured with with_target, as the set of directives with a target.
ConfiguredRules(set) == {set[i] : i \in {k \in 1..Len(set) : set[k].target # None}}

\* The rules whose prefix the target starts with.
MatchingRules(set, target) ==
    {r \in ConfiguredRules(set) :
        /\ Len(r.target[1]) <= Len(target)
        /\ SubSeq(target, 1, Len(r.target[1])) = r.target[1]}

\* The effective minimum for a target: the level of the longest matching
\* prefix, the default level when no rule matches.
EffectiveMinimum(set, default, target) ==
    LET rules == MatchingRules(set, target)
    IN  IF rules = {} THEN default
        ELSE (CHOOSE r \in rules :
                \A q \in rules : Len(q.target[1]) <= Len(r.target[1])).level

\* Severity grows from TRACE to ERROR; the minimum OFF is above every level.
AtLeastAsSevere(level, minimum) ==
    /\ minimum # "OFF"
    /\ <<level, minimum>> \in
         {<<"ERROR", "ERROR">>, <<"ERROR", "WARN">>, <<"ERROR", "INFO">>,
          <<"ERROR", "DEBUG">>, <<"ERROR", "TRACE">>,
          <<"WARN", "WARN">>, <<"WARN", "INFO">>, <<"WARN", "DEBUG">>, <<"WARN", "TRACE">>,
          <<"INFO", "INFO">>, <<"INFO", "DEBUG">>, <<"INFO", "TRACE">>,
          <<"DEBUG", "DEBUG">>, <<"DEBUG", "TRACE">>,
          <<"TRACE", "TRACE">>}

\* C2: with the subscriber assembled from a default level and per-target rules
\* (and no custom predicate added), an event is delivered to the sinks if and
\* only if its level is at least as severe as the effective minimum for its
\* target: the level of the longest configured prefix of the target, or the
\* default level when no rule matches.
C2_DeliveredIffSevereEnough ==
    (delivery.dispatched /\ custom_filter = None) =>
        (delivery.delivered <=>
            AtLeastAsSevere(delivery.level,
                            EffectiveMinimum(filter, log_level, delivery.target)))

\* An event whose target matches three rules of different lengths is delivered
\* because the longest one admits it, though the default and the shorter rules
\* would not.
C2_Witness ==
    /\ delivery.dispatched
    /\ custom_filter = None
    /\ delivery.delivered
    /\ delivery.target = <<"a", "b", "b">>
    /\ delivery.level = "DEBUG"
    /\ log_level = "ERROR"
    /\ Len(filter) = 3
    /\ \E i \in 1..3 : filter[i].target = Some(<<"a">>) /\ filter[i].level = "OFF"
    /\ \E i \in 1..3 : filter[i].target = Some(<<>>) /\ filter[i].level = "WARN"

(***************************************************************************)
(* Properties of the retention sweep                                       *)
(***************************************************************************)
\* The entries named {prefix}.….log among a set of names.
LogFilesIn(names) ==
    {name \in names :
        /\ Len(name) >= Len(file_prefix) + 1
        /\ SubSeq(name, 1, Len(file_prefix) + 1) = file_prefix \o <<".">>
        /\ Len(name) >= 2
        /\ SubSeq(name, Len(name) - 1, Len(name)) = <<".", "log">>}

\* `kept` are exactly the k greatest names of `all`.
IsGreatestK(kept, all, k) ==
    /\ kept \subseteq all
    /\ Cardinality(kept) = k
    /\ \A r \in kept, d \in all \ kept : StrLess(d, r)

\* C4: after a sweep in which every deletion succeeded, of the N files named
\* {prefix}.….log there remain: with KeepSome(k), k < N, exactly the k with the
\* greatest names; with KeepOne exactly the greatest; with KeepAll, and with
\* KeepSome(k), k >= N, all N.
C4_RetentionKeepsGreatest ==
    (sweep.state = "Ok" /\ sweep.failed = {}) =>
        LET before == LogFilesIn(sweep.listed)
            after == LogFilesIn(dir)
            N == Cardinality(before)
            k == rotation_strategy.n
        IN  /\ (rotation_strategy.kind = "KeepSome" /\ k < N) => IsGreatestK(after, before, k)
            /\ (rotation_strategy.kind = "KeepSome" /\ k >= N) => after = before
            /\ (rotation_strategy.kind = "KeepOne" /\ N >= 1) => IsGreatestK(after, before, 1)
            /\ rotation_strategy.kind = "KeepAll" => after = before

\* A sweep with KeepSome(2) over four log files of the prefix, all removals
\* succeeding, that left two of them.
C4_Witness ==
    /\ sweep.state = "Ok"
    /\ sweep.failed = {}
    /\ rotation_strategy = KeepSome(2)
    /\ Cardinality(LogFilesIn(sweep.listed)) = 4
    /\ Cardinality(LogFilesIn(dir)) = 2

\* The entries named P.<rotation token>.log: the prefix, a dot, one token that
\* is no dot, and ".log".
RotatedLogFilesIn(names) ==
    {name \in names :
        /\ Len(name) = Len(file_prefix) + 4
        /\ SubSeq(name, 1, Len(file_prefix)) = file_prefix
        /\ name[Len(file_prefix) + 1] = "."
        /\ name[Len(file_prefix) + 2] # "."
        /\ SubSeq(name, Len(name) - 1, Len(name)) = <<".", "log">>}

\* The files a finished sweep tried to remove: those gone and those whose
\* removal failed.
AttemptedRemovals == (sweep.listed \ dir) \cup sweep.failed

\* C13: a sweep for prefix P considers only the entries named P.*.log (P, a
\* dot, a rotation token, ".log"): every other entry is still there afterwards,
\* and the files it tries to remove are exactly the P.*.log entries that have at
\* least the retained count of greater P.*.log names above them, none with
\* KeepAll.
C13_OnlyRotatedFilesConsidered ==
    sweep.state = "Ok" =>
        LET considered == RotatedLogFilesIn(sweep.listed)
            beyond(k) == {f \in considered :
                             Cardinality({g \in considered : StrLess(f, g)}) >= k}
        IN  /\ (sweep.listed \ considered) \subseteq dir
            /\ rotation_strategy.kind = "KeepAll" => AttemptedRemovals = {}
            /\ rotation_strategy.kind = "KeepOne" => AttemptedRemovals = beyond(1)
            /\ rotation_strategy.kind = "KeepSome" =>
                   AttemptedRemovals = beyond(rotation_strategy.n)

(***************************************************************************)
(* Properties of sink assembly in the setup hook                           *)
(***************************************************************************)
\* The setup hook has returned an error.
SetupFailed == setup_result # None /\ ~setup_result[1].ok

\* The file appender exists.
AppenderCreated == layers.file # None

\* C14: with a file sink configured and no maximum file size, the retention
\* sweep has run exactly once, and returned, in every state in which the file
\* appender exists and when the hook returns Ok; with a maximum file size no
\* sweep runs at all and the directory is left as it was; no assembly sweeps
\* twice.
C14_SweepOnceBeforeAppender ==
    /\ sweeps <= 1
    /\ (max_file_size = None /\ AppenderCreated) => (sweeps = 1 /\ sweep.state = "Ok")
    /\ (max_file_size = None /\ file_config # None /\ setup_result = Some(SetupOk)) =>
           sweeps = 1
    /\ max_file_size # None => (sweeps = 0 /\ sweep = NoSweep /\ dir = StartupDir)

\* The appender of a configuration without a maximum size exists, and the one
\* sweep before it has removed a file.
C14_Witness ==
    /\ max_file_size = None
    /\ AppenderCreated
    /\ layers.file[1].appender.crate = "tracing_appender"
    /\ sweeps = 1
    /\ dir # StartupDir

\* C15: when a removal failed during the sweep, the sweep has still tried every
\* file beyond the retained count (each is gone or among the failed ones), it
\* returned Ok, and assembly went on to the appender: an error of the hook
\* then comes from a later step, never from the sweep.
C15_DeletionFailureTolerated ==
    sweep.failed # {} =>
        /\ sweep.state = "Ok"
        /\ AttemptedRemovals = FilesToRemove(sweep.listed, file_prefix, rotation_strategy)
        /\ sweep.listed \ dir =
               FilesToRemove(sweep.listed, file_prefix, rotation_strategy) \ sweep.failed
        /\ pc \in {"swept", "file", "installed", "managed", "running", "torn_down", "failed"}
        /\ SetupFailed => setup_result[1].from \in {"file_appender", "set_global_default"}

\* Of two files beyond the retained count one could not be removed and the
\* other was; the hook returned Ok with the file sink in place.
C15_Witness ==
    /\ Cardinality(sweep.failed) = 1
    /\ Cardinality(sweep.listed \ dir) = 1
    /\ setup_result = Some(SetupOk)
    /\ AppenderCreated

\* C16: when path resolution, directory creation, the listing of the sweep, the
\* appender's construction or set_global_default fails, the hook returns the
\* typed Error of that step and the plugin's subscriber is not the process-wide
\* default; the hook goes past the installation only with its subscriber
\* installed.
C16_FailureAbortsAssembly ==
    /\ pc = "failed" <=> SetupFailed
    /\ SetupFailed =>
          /\ global_default # "plugin"
          /\ subscriber = None
          /\ ~managed
          /\ <<setup_result[1].from, setup_result[1].error>> \in
                {<<"app_log_dir", "Tauri">>, <<"create_dir_all", "Io">>,
                 <<"read_dir", "Io">>, <<"file_appender", "Io">>,
                 <<"set_global_default", "SetGlobalDefault">>}
    /\ (set_default_subscriber /\ pc \in {"installed", "managed", "running", "torn_down"}) =>
          (global_default = "plugin" /\ subscriber # None)

\* Another subscriber holds the slot: set_global_default failed after the file
\* sink had been created, and the hook returned SetGlobalDefault.
C16_Witness ==
    /\ SetupFailed
    /\ setup_result[1].error = "SetGlobalDefault"
    /\ global_default = "other"
    /\ AppenderCreated

\* C18 as stated: whenever a file sink has been created, the worker guard is
\* in managed state once the hook has returned and is not dropped before
\* teardown; without a file sink there is no guard.
C18_GuardStoredWheneverFileSink ==
    /\ (AppenderCreated /\ setup_result # None /\ pc # "torn_down") =>
           (managed /\ guard = "LogGuard")
    /\ guard = "dropped" => pc = "torn_down"
    /\ ~AppenderCreated => (guard = "none" /\ ~managed)

\* C18, amended: whenever assembly succeeds with a file sink, the worker guard
\* is in managed state when the hook returns Ok and stays there until teardown;
\* the guard is dropped before teardown only when the hook returns an error
\* (set_global_default failing after the file sink was created); without a
\* file sink there is no guard and nothing is stored.
C18_GuardStoredWhenAssembled ==
    /\ (AppenderCreated /\ setup_result = Some(SetupOk) /\ pc # "torn_down") =>
           (managed /\ guard = "LogGuard")
    /\ (guard = "dropped" /\ pc # "torn_down") =>
           (SetupFailed /\ setup_result[1].from = "set_global_default")
    /\ ~AppenderCreated => (guard = "none" /\ ~managed)

\* The hook has returned Ok with a file sink and the guard is in managed state.
C18_Witness ==
    /\ pc = "running"
    /\ setup_result = Some(SetupOk)
    /\ AppenderCreated
    /\ managed
    /\ guard = "LogGuard"

\* A console layer has colors on.
ConsoleColor ==
    \/ layers.stdout # None /\ layers.stdout[1].ansi
    \/ layers.stderr # None /\ layers.stderr[1].ansi

\* C19: in every state of the assembly, and so in every installed dispatcher,
\* a console layer has ANSI colors on only if there is no file layer or the
\* file layer writes through the StripAnsiWriter with its own ANSI output off;
\* the console's colors are the configured ones whatever the file sink is.
C19_ColorOnlyWithStrippedFile ==
    /\ ConsoleColor =>
          \/ layers.file = None
          \/ layers.file[1].writer = "StripAnsiWriter" /\ ~layers.file[1].ansi
    /\ layers.file # None => ~layers.file[1].ansi
    /\ ConsoleColor => use_colors

\* An installed dispatcher with colored stdout and a size-rotated file sink.
C19_Witness ==
    /\ global_default = "plugin"
    /\ ConsoleColor
    /\ layers.file # None
    /\ layers.file[1].appender.crate = "rolling_file"
    /\ rotation = "Minutely"

(***************************************************************************)
(* Properties of the shared StripAnsiWriter                                *)
(***************************************************************************)
\* The bytes the wrapped writer received from the k-th write, in order.
ReceivedFrom(k) ==
    LET of_k == SelectSeq(inner, LAMBDA x : x.write = k)
    IN  [i \in 1..Len(of_k) |-> of_k[i].byte]

\* The k-th write is over: its thread has returned from it or has died.
WriteOver(k) ==
    LET t == performed[k].thread
    IN  writer[t] # "writing" \/ CurrentWrite(t) # k

\* At most one guard exists, its holder owns the mutex; the wrapped writer has
\* the bytes of the writes one write after the other in the order the writes
\* were made, each a prefix of the stripped buffer and all of it once the write
\* has returned.
WriterSerialized ==
    /\ Cardinality(GuardHolders) <= 1
    /\ \A t \in GuardHolders : mutex.holder = Some(t)
    /\ \A i, j \in 1..Len(inner) : i < j => inner[i].write <= inner[j].write
    /\ \A k \in 1..Len(performed) :
          /\ Len(ReceivedFrom(k)) <= Len(StrippedOutput(performed[k].buf))
          /\ ReceivedFrom(k) =
                SubSeq(StrippedOutput(performed[k].buf), 1, Len(ReceivedFrom(k)))
          /\ (WriteOver(k) /\ writer[performed[k].thread] # "panicked") =>
                ReceivedFrom(k) = StrippedOutput(performed[k].buf)

\* A thread that asks for the guard and gets past the lock has a guard and owns
\* the mutex, poisoned or not.
GuardUsable ==
    \A t \in Threads :
        (writer[t] = "idle" /\ writer'[t] # "idle") =>
            (writer'[t] = "guard" /\ mutex'.holder = Some(t))

\* C17: for any interleaving of the writers of one StripAnsiWriter, at most one
\* guard exists at a time, the wrapped writer receives the stripped bytes of
\* each write contiguously and in the order of the writes, and a thread that
\* takes the lock after a holder panicked gets a guard it can write through.
C17_SerializedWriters == [](WriterSerialized) /\ [][GuardUsable]_vars

\* One thread panicked in the middle of a write; the other then took the
\* poisoned lock and its whole stripped output followed the partial one.
C17_Witness ==
    /\ mutex.poisoned
    /\ Len(performed) = 2
    /\ writer[performed[1].thread] = "panicked"
    /\ writer[performed[2].thread] = "guard"
    /\ Len(ReceivedFrom(1)) = 1
    /\ StrippedOutput(performed[1].buf) = <<"x", "x">>
    /\ ReceivedFrom(2) = <<"x", "x">>

(***************************************************************************)
(* Properties of the frontend-forward sink                                 *)
(***************************************************************************)
\* The positions of the fields named "message".
MessageFields(fields) == {i \in 1..Len(fields) : fields[i].name = "message"}

\* C20: for every event that reaches the WebviewLayer with a `message` field,
\* exactly one payload is emitted on tracing://log; its message is the text of
\* that field, whatever the text and whatever fields follow it, and its level
\* is the event's severity.
C20_MessageForwarded ==
    (emitted # <<>> /\ MessageFields(recorded[1].fields) # {}) =>
        LET fields == recorded[1].fields
            m == CHOOSE i \in MessageFields(fields) : TRUE
        IN  /\ Len(emitted) = 1
            /\ emitted[1].channel = "tracing://log"
            /\ emitted[1].payload.message = fields[m].text
            /\ LevelFromLogLevel(emitted[1].payload.level) = recorded[1].level

(***************************************************************************)
(* Properties of rotation and of the builder's configuration               *)
(***************************************************************************)
\* C21: a file sink assembled with a maximum file size rolls on that size and
\* keeps the time trigger of the configured rotation: Daily, Hourly and
\* Minutely each stay active beside the size trigger, and only Never leaves
\* the size trigger alone.
C21_SizeAndTimeRotation ==
    (AppenderCreated /\ max_file_size # None) =>
        LET appender == layers.file[1].appender
        IN  /\ appender.max_size = max_file_size
            /\ rotation \in {"Daily", "Hourly", "Minutely"} => appender.time = Some(rotation)
            /\ rotation = "Never" => appender.time = None


\* The sink list the spec predicts after a history of builder calls.
RECURSIVE TargetsAfter(_, _)
TargetsAfter(calls, list) ==
    IF calls = <<>> THEN list
    ELSE LET c == Head(calls)
             next == CASE c.method = "target" -> Append(list, c.arg)
                       [] c.method = "with_file_logging" -> Append(list, LogDir(None))
                       [] c.method = "targets" -> c.arg
                       [] c.method = "clear_targets" -> <<>>
                       [] OTHER -> list
         IN  TargetsAfter(Tail(calls), next)

\* C22: the sink list starts as [Stdout, Webview] and after any sequence of
\* builder calls equals the result of applying them in order: target(t)
\* appends t, with_file_logging() appends LogDir{file_name: None}, targets(ts)
\* replaces the list by ts, clear_targets() empties it, and every other
\* method leaves it as it was.
C22_TargetsFollowCalls ==
    targets = TargetsAfter(builder_calls, <<Stdout, Webview>>)

C22_Witness ==
    /\ Len(builder_calls) = 3
    /\ builder_calls[1].method = "targets"
    /\ builder_calls[1].arg = <<Stderr>>
    /\ builder_calls[2].method = "with_rotation"
    /\ builder_calls[3].method = "with_file_logging"
    /\ targets = <<Stderr, LogDir(None)>>


\* C23: unless with_default_subscriber() was called, the setup hook installs
\* no process-wide subscriber and assembles no sink: no file target is
\* resolved (no log directory created), no retention sweep runs, no layer and
\* no appender is built and no guard is kept, whatever targets, rotation and
\* retention were configured.
C23_NoAssemblyWithoutDefaultSubscriber ==
    ~set_default_subscriber =>
        /\ global_default # "plugin"
        /\ subscriber = None
        /\ file_config = None
        /\ sweeps = 0
        /\ sweep = NoSweep
        /\ layers = NoLayers
        /\ guard = "none"
        /\ ~managed
        /\ pc \in {"setup", "running", "torn_down"}
        /\ setup_result \in {None, Some(SetupOk)}

C23_Witness ==
    /\ ~set_default_subscriber
    /\ pc = "running"
    /\ \E i \in 1..Len(targets) : IsFileTarget(targets[i])
    /\ rotation_strategy = KeepOne
    /\ max_file_size # None
    /\ setup_result = Some(SetupOk)


\* The targets of one kind in the configured list.
TargetsOfKind(kinds) == {i \in 1..Len(targets) : targets[i].kind \in kinds}

\* The file name of the file target that comes first in the list.
LeadingFileName ==
    LET idx == TargetsOfKind({"LogDir", "Folder"})
        first == CHOOSE i \in idx : \A j \in idx : i <= j
    IN  IF targets[first].file_name = None THEN <<"app">> ELSE targets[first].file_name[1]

\* C29: for every target list, sink assembly (which runs when the default
\* subscriber was asked for) instantiates each kind of sink at most once:
\* a stdout, stderr or frontend-forward sink exactly when a target of that
\* kind is in the list, and one file sink, for the first LogDir/Folder target
\* in list order.  A later file target is not resolved, the one sweep is that
\* of the first target's files, and only files of the first target are lost.
C29_OneSinkPerKind ==
    /\ (set_default_subscriber
           /\ pc \in {"console", "swept", "file", "installed", "managed", "running"}) =>
           /\ layers.stdout # None <=> TargetsOfKind({"Stdout"}) # {}
           /\ layers.stderr # None <=> TargetsOfKind({"Stderr"}) # {}
           /\ layers.webview # None <=> TargetsOfKind({"Webview"}) # {}
    /\ (set_default_subscriber /\ pc \in {"file", "installed", "managed", "running"}) =>
           (layers.file # None <=> TargetsOfKind({"LogDir", "Folder"}) # {})
    /\ layers.file # None => file_config # None
    /\ file_config # None =>
           /\ TargetsOfKind({"LogDir", "Folder"}) # {}
           /\ file_config[1].file_name = LeadingFileName
    /\ sweeps <= 1
    /\ sweeps = 1 => (file_config # None /\ file_prefix = LeadingFileName)
    /\ \A f \in StartupDir \ dir : IsLogFileOf(f, LeadingFileName)

\* The list holds two file targets: the sink is the first one's and the sweep
\* has removed the first one's files only.
C29_Witness ==
    /\ targets = <<Folder(Some(<<"web">>)), LogDir(None)>>
    /\ pc = "running"
    /\ layers.file # None
    /\ file_config = Some([file_name |-> <<"web">>])
    /\ sweeps = 1
    /\ dir = StartupDir \ {<<"web", ".", "1", ".", "log">>}


\* The builder's fields.
BuilderFields ==
    <<log_level, filter, custom_filter, targets, rotation, rotation_strategy,
      max_file_size, use_colors, set_default_subscriber>>

\* What build_filter returned is the per-target rules with the maximum level
\* as the one default, and what the plugin's subscriber filters with.
ReturnedFilterAsInstalled ==
    ret.op = "build_filter" =>
        /\ ConfiguredRules(ret.val) = ConfiguredRules(filter)
        /\ \E i \in 1..Len(ret.val) :
              /\ ret.val[i] = [target |-> None, level |-> log_level]
              /\ \A j \in 1..Len(ret.val) : ret.val[j].target = None => j = i
        /\ subscriber # None => subscriber[1].filter = ret.val

\* C24: build_filter() leaves the builder unchanged, so it can be called again
\* and the builder built afterwards, and it returns the level/target filter
\* the plugin-managed subscriber installs for the same configuration: the
\* per-target rules with the configured maximum level as default.
C24_BuildFilterMatchesInstalled ==
    /\ [](ReturnedFilterAsInstalled)
    /\ [][ret' # ret => UNCHANGED BuilderFields]_vars

C24_Witness ==
    /\ ret.op = "build_filter"
    /\ subscriber # None
    /\ Len(filter) = 2
    /\ log_level = "DEBUG"
    /\ Len(ret.val) = 3


\* The minimum the configuration sets for the empty target once every rule
\* with a non-empty prefix is taken away.
MinimumForEmptyTarget ==
    LET empty == {r \in ConfiguredRules(filter) : r.target = Some(<<>>)}
    IN  IF empty = {} THEN log_level ELSE (CHOOSE r \in empty : TRUE).level

\* C30 as stated: whether an event with the empty target, which is what the
\* log command emits, is delivered depends only on its severity and the
\* default maximum level.
C30_OnlyDefaultMaximumLevel ==
    (delivery.dispatched /\ delivery.target = <<>> /\ custom_filter = None) =>
        (delivery.delivered <=> AtLeastAsSevere(delivery.level, log_level))

\* C30, amended: an event with the empty target is delivered according to its
\* severity and the default maximum level, or the level of the rule for the
\* empty prefix when one is configured; no rule with a non-empty prefix
\* changes whether it is delivered.
C30_EmptyTargetIgnoresPrefixRules ==
    (delivery.dispatched /\ delivery.target = <<>> /\ custom_filter = None) =>
        (delivery.delivered <=> AtLeastAsSevere(delivery.level, MinimumForEmptyTarget))

\* Two rules with non-empty prefixes would admit the event, the default does
\* not, and it is not delivered.
C30_Witness ==
    /\ delivery.dispatched
    /\ delivery.target = <<>>
    /\ custom_filter = None
    /\ log_level = "WARN"
    /\ delivery.level = "INFO"
    /\ ConfiguredRules(filter) =
           {[target |-> Some(<<"a">>), level |-> "TRACE"],
            [target |-> Some(<<"a", "b">>), level |-> "TRACE"]}
    /\ ~delivery.delivered


(***************************************************************************)
(* Properties of the timers                                                *)
(***************************************************************************)
\* The calls that have run to their end.
DoneCalls == {i \in 1..Len(timer_calls) : timer_calls[i].pc = "done"}

\* C25: timers are isolated per originating window: whenever a time or
\* time_end command found a timer under its key (to overwrite it or to end
\* it), the timer had been started from the window of the command.
C25_TimersIsolatedPerWindow ==
    \A i \in DoneCalls :
        timer_calls[i].found # None =>
            timer_calls[timer_calls[i].found[1].started].window = timer_calls[i].window

\* The reports of one level.
ReportsAt(level) == {k \in 1..Len(reports) : reports[k].level = level}

\* The time_end calls that have run to their end.
DoneEnds == {i \in DoneCalls : timer_calls[i].op = "time_end"}

\* Each started timer is ended at most once, and every time_end made one
\* report: the elapsed time if it found the key, the warning if not.
EachTimerEndedOnce ==
    /\ \A i \in DoneEnds : \A j \in DoneEnds :
          (i # j /\ timer_calls[i].found # None) =>
              timer_calls[i].found # timer_calls[j].found
    /\ Cardinality(ReportsAt("TRACE")) =
          Cardinality({i \in DoneEnds : timer_calls[i].found # None})
    /\ Cardinality(ReportsAt("WARN")) =
          Cardinality({i \in DoneEnds : timer_calls[i].found = None})
    /\ Len(reports) = Cardinality(DoneEnds)

\* After one time(k) has run, two time_end(k) calls in any interleaving.
OneStartTwoEnds ==
    /\ Len(timer_calls) = 3
    /\ DoneCalls = {1, 2, 3}
    /\ timer_calls[1].op = "time"
    /\ timer_calls[1].turn = 1
    /\ timer_calls[2].op = "time_end"
    /\ timer_calls[3].op = "time_end"
    /\ timer_calls[2].key = timer_calls[1].key
    /\ timer_calls[3].key = timer_calls[1].key

OneElapsedOneWarning ==
    OneStartTwoEnds =>
        /\ Cardinality(ReportsAt("TRACE")) = 1
        /\ Cardinality(ReportsAt("WARN")) = 1
        /\ \A t \in timings : t.key # timer_calls[1].key

\* A step in which a time_end call runs under the lock: it removes the entry
\* of its key when there is one, and changes nothing when there is none.
EndRemovesOrLeaves ==
    \A i \in 1..Len(timer_calls) :
        (timer_calls[i].op = "time_end" /\ timings_lock = Some(i) /\ timings_lock' = None) =>
            /\ timings' = {t \in timings : t.key # timer_calls[i].key}
            /\ (\A t \in timings : t.key # timer_calls[i].key) =>
                   /\ timings' = timings
                   /\ reports'[Len(reports')].level = "WARN"
                   /\ reports'[Len(reports')].message =
                          <<"Timing label not found: ">> \o timer_calls[i].key
            /\ (\E t \in timings : t.key = timer_calls[i].key) =>
                   reports'[Len(reports')].level = "TRACE"

\* C28: for any interleaving of time and time_end calls on the same key each
\* started timer is consumed by at most one time_end: a time_end that finds
\* the key removes it and reports the elapsed time, one that does not find it
\* reports a "Timing label not found" warning and changes nothing; after one
\* time(k), two concurrent time_end(k) calls produce exactly one elapsed
\* report and one warning, and k is absent from the map.
C28_TimerConsumedOnce ==
    /\ [](EachTimerEndedOnce /\ OneElapsedOneWarning)
    /\ [][EndRemovesOrLeaves]_vars

\* Both time_end calls were waiting for the lock together, after the timer
\* had been started; the later invoked of the two got the timer.
C28_Witness ==
    /\ OneStartTwoEnds
    /\ timer_calls[3].turn = 2
    /\ timer_calls[2].turn = 3
    /\ timer_calls[3].found # None
    /\ timer_calls[2].found = None
    /\ reports[1].level = "TRACE"
    /\ reports[2].level = "WARN"


(***************************************************************************)
(* Further properties of the log command and the call-stack parser         *)
(***************************************************************************)
\* The five severities, least severe first.
BySeverity == <<"Trace", "Debug", "Info", "Warn", "Error">>

\* C26: for the severity a log command was invoked with, converting the
\* LogLevel to the backbone's level (the level of the emitted event) and back
\* yields the same LogLevel, its wire encoding is its rank from 1 (Trace) to
\* 5 (Error) in ascending severity, and the default LogLevel is Info.
C26_LevelRoundTrip ==
    invoked.called =>
        /\ event.level = LevelFromLogLevel(invoked.level)
        /\ LogLevelFromLevel(event.level) = invoked.level
        /\ BySeverity[LogLevelRepr(invoked.level)] = invoked.level
        /\ LogLevelRepr(invoked.level) = 6 - Verbosity(event.level)
        /\ LogLevelDefault = "Info"

C26_Witness ==
    /\ invoked.called
    /\ invoked.level = "Warn"
    /\ event.level = "WARN"
    /\ LogLevelRepr(invoked.level) = 4

\* A surviving frame with only the URL prefix taken out: the text before the
\* first "localhost:" and the text after the first "/" that follows it.
OnlyUrlPrefixRemoved(line) ==
    LET hosts == {k \in 1..Len(line) : line[k] = "localhost:"}
        first == CHOOSE k \in hosts : \A h \in hosts : k <= h
        slashes == IF hosts = {} THEN {} ELSE {j \in (first + 1)..Len(line) : line[j] = "/"}
        slash == CHOOSE j \in slashes : \A x \in slashes : j <= x
    IN  IF slashes = {} THEN line
        ELSE SubSeq(line, 1, first - 1) \o SubSeq(line, slash + 1, Len(line))

\* C27: localhost stripping removes only the URL prefix from a surviving
\* frame: the frame text that precedes the URL and the text after the prefix
\* are both preserved in location().
C27_PrecedingTextPreserved ==
    ret.op = "location" =>
        ret.val = Join([i \in 1..Len(SurvivingFrames) |->
                            OnlyUrlPrefixRemoved(SurvivingFrames[i])], HASH)

====
